---- MODULE Spec2Model ----
(***************************************************************************)
(* Round-trip engine of gmaildownloader: build_round_trips.main (the       *)
(* aggregator) followed by round_trip_validator.main (the validator).      *)
(*                                                                         *)
(* Number representation.  The code computes with decimal.Decimal, which   *)
(* is exact; the model keeps every decimal as an integer in a fixed unit:  *)
(*   prices, summed values and the running cashflow : 1/1000   ("mils")    *)
(*   VWAPs (quantized to 0.000001)                  : 1/1000000 ("micro")  *)
(*   realized_pnl_cash (quantized to 0.01)          : 1/100    ("cents")   *)
(* A timestamp is the record [local, tz]: the wall-clock second count the  *)
(* ISO string shows and its UTC offset in seconds; aware datetimes compare *)
(* by the instant local - tz, as Python does.  A timestamp whose text has  *)
(* no offset is the record [local] alone: a naive datetime, which compares *)
(* with naive ones by the wall clock and raises TypeError against an aware *)
(* one.                                                                    *)
(***************************************************************************)
EXTENDS Integers, Sequences, FiniteSets, TLC

\* Longest input file (accepted and rejected rows together) explored.
MaxFills == 3

\* Python's None where the value would be text (message_id, option_type...).
NoVal == "None"

\* An optional number or datetime: None is the empty tuple, a value x is <<x>>.
None == <<>>
Some(x) == <<x>>
Val(o) == o[1]

BUY == "BUY"
SELL == "SELL"

\* trade_id given to the synthetic leg.
SYN_EXP == "SYN_EXP"

\* subject given to the synthetic leg.
SyntheticSubject == "Synthetic expiration at $0.00"

\* time(23, 59, 59) as a second of the day.
EndOfDaySecond == 86399

Abs(x) == IF x < 0 THEN -x ELSE x

Last(s) == s[Len(s)]

Range(s) == { s[i] : i \in 1..Len(s) }

(***************************************************************************)
(* Conversions of CSV text.                                                *)
(***************************************************************************)

\* str.lower() on the flag texts a CSV column carries.
Lower(s) ==
  CASE s = "True" -> "true"
    [] s = "False" -> "false"
    [] s = "TRUE" -> "true"
    [] OTHER -> s

\* str.upper() on a side.
Upper(s) ==
  CASE s = "buy" -> "BUY"
    [] s = "sell" -> "SELL"
    [] s = "tIP" -> "TIP"
    [] s = "Thursday" -> "THURSDAY"
    [] s = "Monday" -> "MONDAY"
    [] OTHER -> s

\* `x.lower() in ("true", "1", "t", "yes", "y")`
Truthy(s) == Lower(s) \in {"true", "1", "t", "yes", "y"}

\* float(text): Some(number), or None where float() raises ValueError.
ParseFloat(s) ==
  CASE s \in {"100", "100.0"} -> Some(100)
    [] s \in {"50", "50.0"} -> Some(50)
    [] s \in {"24", "24.0"} -> Some(24)
    [] s \in {"20", "20.0"} -> Some(20)
    [] s \in {"1", "1.0"} -> Some(1)
    [] s \in {"500", "500.0"} -> Some(500)
    [] s \in {"505", "505.0"} -> Some(505)
    [] s \in {"5300", "5300.0"} -> Some(5300)
    [] OTHER -> None

\* datetime.fromisoformat(text).date() as Some(day number) (2024-05-16 is
\* day 0), or None where fromisoformat raises.
IsoDay(s) ==
  CASE s = "2024-05-17" -> Some(1)
    [] s = "2024-05-24" -> Some(8)
    [] OTHER -> None

\* The datetime has a tzinfo.
IsAware(dt) == "tz" \in DOMAIN dt

\* dt.tzinfo
TzInfo(dt) == IF IsAware(dt) THEN Some(dt.tz) ELSE None

\* `a < b` and `a > b` on datetimes return a value only when both are
\* aware or both are naive.
Comparable(a, b) == IsAware(a) = IsAware(b)

\* What datetimes compare by: the instant (UTC seconds) of an aware one,
\* the wall clock of a naive one.
Utc(dt) == IF IsAware(dt) THEN dt.local - dt.tz ELSE dt.local

\* datetime.combine(expiry_d, time(23, 59, 59), tzinfo=tz)
EndOfDay(day, tz) == [local |-> day * 86400 + EndOfDaySecond, tz |-> tz]

(***************************************************************************)
(* Decimal helpers of build_round_trips.py.                                *)
(***************************************************************************)

\* Decimal.quantize(..., rounding=ROUND_HALF_UP) of the rational num/den
\* (den > 0) to a whole number of units: ties go away from zero.
QuantizeHalfUp(num, den) ==
  IF num >= 0 THEN (2 * num + den) \div (2 * den)
  ELSE -((2 * (-num) + den) \div (2 * den))

\* vwap quantizing with the default rounding, ROUND_HALF_EVEN.
vwap_half_even(total_qty, total_value) ==
  IF total_qty = 0 THEN None
  ELSE LET x == total_value * 1000
           q == x \div total_qty
           r == x % total_qty
       IN Some(IF 2 * r > total_qty \/ (2 * r = total_qty /\ q % 2 = 1)
               THEN q + 1 ELSE q)

\* vwap(total_qty, total_value): mils in, Some(micro) out, None when qty is 0.
vwap(total_qty, total_value) ==
  IF total_qty = 0 THEN None
  ELSE Some(QuantizeHalfUp(total_value * 1000, total_qty))

\* normalize_multiplier testing the symbol before the futures root.
normalize_multiplier_symbol_first(symbol, fut_root_symbol, cm) ==
  IF symbol \in {"SPX", "SPY"} THEN 100
  ELSE IF fut_root_symbol = "/ES" THEN 50
  ELSE cm

normalize_multiplier(symbol, fut_root_symbol, cm) ==
  IF fut_root_symbol = "/ES" THEN 50
  ELSE IF symbol \in {"SPX", "SPY"} THEN 100
  ELSE cm

(***************************************************************************)
(* The input file: rows of trades_fixed_final.csv.  A row is what          *)
(* csv.DictReader yields, every column a text; the numeric columns are     *)
(* kept as the number their text denotes (None for the empty text).        *)
(***************************************************************************)

\* The contract columns of a row.
SpyOpt ==
  [account |-> "0960", symbol |-> "SPY", is_option |-> "True",
   expiry_date |-> "2024-05-17", strike |-> "500.0", option_type |-> "PUT",
   fut_root_symbol |-> "", contract_multiplier |-> "100.0"]

\* An option whose multiplier column is empty (multiplier 1.0).
BareOpt ==
  [SpyOpt EXCEPT !.symbol = "AAPL", !.contract_multiplier = ""]

\* A share position: no expiry, strike or option type.
Stock ==
  [account |-> "0960", symbol |-> "AAPL", is_option |-> "False",
   expiry_date |-> "", strike |-> "", option_type |-> "",
   fut_root_symbol |-> "", contract_multiplier |-> ""]

\* Contracts that differ from SpyOpt in one key column each, and two that
\* differ from it only in how a column is written.
KeyContracts ==
  { SpyOpt,
    [SpyOpt EXCEPT !.account = "1234"],
    [SpyOpt EXCEPT !.strike = "505.0"],
    [SpyOpt EXCEPT !.option_type = "CALL"],
    [SpyOpt EXCEPT !.expiry_date = "2024-05-24"],
    [SpyOpt EXCEPT !.expiry_date = "17 MAY 24"],
    [SpyOpt EXCEPT !.is_option = "False"],
    [SpyOpt EXCEPT !.symbol = "SPX"],
    [SpyOpt EXCEPT !.contract_multiplier = "100"],
    [SpyOpt EXCEPT !.is_option = "TRUE"],
    [Stock EXCEPT !.contract_multiplier = "20.0"],
    Stock }

\* A futures option on the E-mini S&P root.
EsOpt ==
  [account |-> "0960", symbol |-> "/ES", is_option |-> "True",
   expiry_date |-> "2024-05-17", strike |-> "5300.0", option_type |-> "CALL",
   fut_root_symbol |-> "/ES", contract_multiplier |-> "50.0"]

\* Contracts whose multiplier column and futures root vary: the three
\* branches of normalize_multiplier, each with raw texts that are numeric,
\* empty and not a number.
MultContracts ==
  { EsOpt,
    [EsOpt EXCEPT !.contract_multiplier = ""],
    [EsOpt EXCEPT !.contract_multiplier = "1/50"],
    [EsOpt EXCEPT !.contract_multiplier = "100.0"],
    [SpyOpt EXCEPT !.fut_root_symbol = "/ES"],
    SpyOpt,
    [SpyOpt EXCEPT !.contract_multiplier = "20.0"],
    [SpyOpt EXCEPT !.contract_multiplier = ""],
    [SpyOpt EXCEPT !.symbol = "SPX", !.contract_multiplier = "1/50"],
    BareOpt,
    [BareOpt EXCEPT !.contract_multiplier = "1/50"],
    [BareOpt EXCEPT !.contract_multiplier = "20.0"],
    [BareOpt EXCEPT !.contract_multiplier = "20.0",
                    !.fut_root_symbol = "/NQ"] }

\* Timestamps (date_iso): 2024-05-16T10:00:00-04:00, 2024-05-17T20:00:00+00:00
\* and, after the expiry day 2024-05-17 has ended everywhere,
\* 2024-05-18T09:00:00+00:00.
T1 == [local |-> 36000, tz |-> -14400]
T2 == [local |-> 158400, tz |-> 0]
T3 == [local |-> 205200, tz |-> 0]

\* 2024-05-16T10:00:00, a date_iso without offset.
N1 == [local |-> 36000]

\* The trade columns of a row.
Trade(side, qty, price, dt) ==
  [side |-> side, qty |-> qty, price |-> price, date_iso |-> dt]

MkRow(c, t, ok) ==
  [parse_ok |-> ok, message_id |-> "18f7a", trade_id |-> "123",
   account |-> c.account, symbol |-> c.symbol, is_option |-> c.is_option,
   expiry_date |-> c.expiry_date, strike |-> c.strike,
   option_type |-> c.option_type, fut_root_symbol |-> c.fut_root_symbol,
   contract_multiplier |-> c.contract_multiplier,
   side |-> t.side,
   qty_signed |-> Some(IF t.side = SELL THEN -t.qty ELSE t.qty),
   qty_abs |-> Some(t.qty), price |-> Some(t.price),
   underlying_mark |-> None, impl_vol |-> None,
   date_iso |-> t.date_iso, subject |-> "#123 BOT +1 SPY 100"]

\* The row with its side, quantity and price columns empty.
Blank(row) ==
  [row EXCEPT !.side = "", !.qty_signed = None, !.qty_abs = None,
              !.price = None]

(***************************************************************************)
(* Upstream of the aggregator: csv_fixer re-parses every subject with      *)
(* tos_trade_parser.parse_trade_subject (trades_clean.csv),                *)
(* fix_futures_options.normalize_row rewrites each row, filter_trades      *)
(* keeps the rows whose parse_ok is truthy (trades_fixed_final.csv).       *)
(***************************************************************************)

\* Subjects: a complete option alert (Scenario 3), the same without its
\* price, a mail that is no trade alert, and a share trade.
SubjOption ==
  "#123 BOT +2 SPY 100 17 MAY 24 500 PUT @.12MARK=520.79 IMPL VOL=13.29% , ACCOUNT *****0960"
SubjNoPrice == "#124 BOT +2 SPY 100 17 MAY 24 500 PUT , ACCOUNT *****0960"
SubjJunk == "Your statement is ready"
SubjShares == "#126 BOT +10 AAPL @1.00 , ACCOUNT *****0960"
SubjEs ==
  "#125 SOLD -1 /ESM24 1/50 MAY 24 (Wk2) 5300 CALL @10.25 , ACCOUNT *****0960"

\* str(float) of the numbers a strike or a multiplier takes.
FloatText(x) ==
  CASE x = 500 -> "500.0"
    [] x = 5300 -> "5300.0"
    [] x = 100 -> "100.0"
    [] x = 50 -> "50.0"
    [] x = 24 -> "24.0"
    [] x = 20 -> "20.0"

\* The row csv_fixer writes for a subject: the columns parse_trade_subject
\* found, the others empty; there is no is_option column.
ParsedRow(subject) ==
  LET base == [parse_ok |-> "False", message_id |-> "18f7a", trade_id |-> "",
               account |-> "", symbol |-> "", is_option |-> "",
               expiry_date |-> "", strike |-> "", option_type |-> "",
               fut_root_symbol |-> "", contract_multiplier |-> "",
               side |-> "", qty_signed |-> None, qty_abs |-> None,
               price |-> None, underlying_mark |-> None, impl_vol |-> None,
               date_iso |-> T1, subject |-> subject]
      option == [base EXCEPT !.account = "*****0960", !.symbol = "SPY",
                   !.contract_multiplier = "100",
                   !.expiry_date = "2024-05-17", !.strike = "500.0",
                   !.option_type = "PUT", !.side = BUY,
                   !.qty_signed = Some(2), !.qty_abs = Some(2)]
  IN CASE subject = SubjOption ->
            [option EXCEPT !.parse_ok = "True", !.trade_id = "123",
                           !.price = Some(120)]
       [] subject = SubjNoPrice -> [option EXCEPT !.trade_id = "124"]
       [] subject = SubjShares ->
            [base EXCEPT !.trade_id = "126", !.account = "*****0960",
                         !.side = BUY, !.qty_signed = Some(10),
                         !.qty_abs = Some(10)]
       [] subject = SubjEs ->
            [base EXCEPT !.trade_id = "125", !.account = "*****0960",
                         !.symbol = "MAY", !.contract_multiplier = "24",
                         !.expiry_date = "2024-05-10", !.strike = "5300.0",
                         !.option_type = "CALL", !.side = SELL,
                         !.qty_signed = Some(-1), !.qty_abs = Some(1)]
       [] OTHER -> base

\* The rows of trades_clean.csv: one per subject, and the two option rows
\* again in a file that has an is_option column saying True, the second
\* of them with its strike lost.
ParsedRows ==
  { ParsedRow(sj) :
      sj \in {SubjOption, SubjNoPrice, SubjJunk, SubjShares, SubjEs} }
  \cup { [ParsedRow(SubjOption) EXCEPT !.is_option = "True"],
         [ParsedRow(SubjNoPrice) EXCEPT !.is_option = "True", !.strike = ""] }

pick_fut_root(subject) == IF subject = SubjEs THEN "/ES" ELSE ""

\* symbol.startswith(fut_root), for a non-empty fut_root.
StartsWith(symbol, fut_root) == symbol = fut_root

extract_contract_multiplier(subject, existing) ==
  IF subject = SubjEs THEN "50.0"
  ELSE IF subject \in {SubjOption, SubjNoPrice} THEN "100.0"
  ELSE IF ParseFloat(existing) # None /\ Val(ParseFloat(existing)) >= 10
    THEN FloatText(Val(ParseFloat(existing)))
  ELSE ""

extract_expiry(subject, existing_expiry, is_option) ==
  IF existing_expiry # "" THEN existing_expiry
  ELSE IF ~is_option THEN ""
  ELSE IF subject \in {SubjOption, SubjNoPrice} THEN "2024-05-17"
  ELSE ""

\* The price column (mils) after extract_price: the parsed one, else the
\* '@' segment of the subject.
extract_price(subject, existing) ==
  IF existing # None THEN existing
  ELSE CASE subject = SubjOption -> Some(120)
         [] subject = SubjShares -> Some(1000)
         [] subject = SubjEs -> Some(10250)
         [] OTHER -> None

normalize_row(row) ==
  LET subj == row.subject
      is_option == Lower(row.is_option) \in {"true", "1", "yes"}
      fut_root == pick_fut_root(subj)
      symbol == IF fut_root # "" /\ ~StartsWith(row.symbol, fut_root)
                THEN fut_root ELSE row.symbol
      cm == extract_contract_multiplier(subj, row.contract_multiplier)
      expiry == extract_expiry(subj, row.expiry_date, is_option)
      price == extract_price(subj, row.price)
      option_type ==
        IF row.option_type # "" THEN row.option_type
        ELSE IF subj \in {SubjOption, SubjNoPrice} THEN "PUT"
        ELSE IF subj = SubjEs THEN "CALL" ELSE ""
      strike == IF row.strike # "" /\ ParseFloat(row.strike) # None
                THEN FloatText(Val(ParseFloat(row.strike))) ELSE ""
      qty_signed == row.qty_signed
      qty_abs == IF row.qty_abs # None THEN row.qty_abs
                 ELSE IF qty_signed # None THEN Some(Abs(Val(qty_signed)))
                 ELSE None
      side == IF Upper(row.side) # "" THEN Upper(row.side)
              ELSE IF qty_signed = None THEN ""
              ELSE IF Val(qty_signed) > 0 THEN BUY
              ELSE IF Val(qty_signed) < 0 THEN SELL ELSE ""
      parse_ok == ~(is_option /\ (symbol = "" \/ expiry = ""
                                   \/ option_type = "" \/ strike = ""))
  IN [row EXCEPT !.symbol = symbol, !.fut_root_symbol = fut_root,
                 !.contract_multiplier = cm, !.expiry_date = expiry,
                 !.price = price, !.option_type = option_type,
                 !.strike = strike, !.side = side,
                 !.qty_signed = qty_signed, !.qty_abs = qty_abs,
                 !.parse_ok = IF parse_ok THEN "True" ELSE "False"]

\* filter_trades.to_bool
to_bool(val) == Lower(val) \in {"true", "1", "yes", "y", "t"}

\* The rows each input family draws from.
\*   "numeric": quantities and prices vary (VWAP and P&L rounding happen);
\*   "time":    timestamps, timezones and expiry vary;
\*   "key":     the key columns vary;
\*   "mult":    the multiplier column and the futures root vary;
\*   "upstream": what normalize_row and the filter make of trades_clean.csv;
\*   "audit":   a few fills of two contracts, for the ledgers the validator
\*              is run on after an edit;
\*   "edge":    timestamps without offset, empty numeric columns, a
\*              malformed expiry, and a VWAP that falls on a rounding tie.
Feeds == {"numeric", "time", "key", "mult", "upstream", "audit", "edge"}

Rows(f) ==
  CASE f = "numeric" ->
         { MkRow(c, Trade(sd, qp[1], qp[2], T1), "True") :
             c \in {SpyOpt, BareOpt}, sd \in {BUY, SELL},
             qp \in {<<1, 1000>>, <<1, 1505>>, <<2, 1505>>} }
         \cup { MkRow(SpyOpt, Trade(BUY, 10, 1000, T1), "True"),
                MkRow(SpyOpt, Trade(SELL, 10, 1500, T1), "True") }
    [] f = "time" ->
         { MkRow(c, Trade(sd, 1, 1000, dt), "True") :
             c \in {SpyOpt, Stock}, sd \in {BUY, SELL}, dt \in {T1, T2, T3} }
         \cup { MkRow(SpyOpt, Trade(BUY, 1, 1000, T1), "False") }
    [] f = "key" ->
         { MkRow(c, Trade(BUY, 1, 1000, T1), "True") : c \in KeyContracts }
         \cup { MkRow(SpyOpt, Trade(SELL, 1, 1000, T1), "True"),
                MkRow(SpyOpt, Trade(BUY, 1, 1000, T1), "") }
    [] f = "mult" ->
         { MkRow(c, Trade(BUY, 1, 1000, T1), "True") : c \in MultContracts }
         \cup { MkRow(EsOpt, Trade(SELL, 1, 1505, T1), "True") }
    [] f = "upstream" ->
         { r \in { normalize_row(p) : p \in ParsedRows } : to_bool(r.parse_ok) }
    [] f = "audit" ->
         { MkRow(SpyOpt, Trade(BUY, 1, 1000, T1), "True"),
           MkRow(SpyOpt, Trade(SELL, 1, 1505, T1), "True"),
           MkRow(Stock, Trade(BUY, 1, 1000, T1), "True"),
           MkRow(Stock, Trade(SELL, 2, 1505, T1), "True") }
    [] f = "edge" ->
         { MkRow(SpyOpt, Trade(sd, 1, 1000, dt), "True") :
             sd \in {BUY, SELL}, dt \in {N1, T1} }
         \cup { MkRow(Stock, Trade(BUY, 1, 1000, N1), "True"),
                Blank(MkRow(Stock, Trade(BUY, 1, 1000, T1), "True")),
                [MkRow(SpyOpt, Trade(BUY, 1, 1000, T1), "True")
                   EXCEPT !.qty_signed = None, !.qty_abs = None,
                          !.price = None],
                MkRow([SpyOpt EXCEPT !.expiry_date = "17 MAY 24"],
                      Trade(BUY, 1, 1000, T1), "True"),
                MkRow(SpyOpt, Trade(BUY, 15, 1000, T1), "True"),
                MkRow(SpyOpt, Trade(BUY, 1, 1505, T1), "True") }

\* The processing instants (datetime.now(timezone.utc), UTC seconds) tried:
\* 2024-05-17T03:46:40Z, before the expiry day 2024-05-17 ends anywhere;
\* 2024-05-18T02:00:00Z, between its end in UTC and its end in UTC-4;
\* 2024-05-18T21:26:40Z, after both.
Nows(f) ==
  CASE f = "time" -> {100000, 180000, 250000}
    [] f = "numeric" -> {100000, 250000}
    [] f = "key" -> {250000}
    [] f = "mult" -> {250000}
    [] f = "upstream" -> {100000, 250000}
    [] f = "audit" -> {100000, 250000}
    [] f = "edge" -> {100000, 250000}

(***************************************************************************)
(* build_round_trips.main, first loop: one row consumed.                   *)
(***************************************************************************)

\* The defaultdict's fresh group.
NewGroup ==
  [legs |-> <<>>, tzinfo |-> None, qty_buy |-> 0, qty_sell |-> 0,
   buy_value |-> 0, sell_value |-> 0, cashflow |-> 0,
   min_dt |-> None, max_dt |-> None,
   any_expiry |-> NoVal, any_symbol |-> NoVal, any_option_type |-> NoVal,
   any_account |-> NoVal, any_multiplier |-> None, is_option |-> None]

\* `if row.get("parse_ok", "").lower() not in (...): continue`
Accepted(row) == Truthy(row.parse_ok)

\* The locals read from one row; an empty text column reads as "" where the
\* code turns it into None and back into "" for the key.
ReadRow(row) ==
  LET raw == IF row.contract_multiplier = "" THEN None
             ELSE ParseFloat(row.contract_multiplier)
      qty_signed == IF row.qty_signed = None THEN 0 ELSE Val(row.qty_signed)
  IN [account |-> row.account,
      symbol |-> row.symbol,
      is_option |-> Truthy(row.is_option),
      expiry_date |-> row.expiry_date,
      strike |-> row.strike,
      option_type |-> row.option_type,
      cm |-> normalize_multiplier(row.symbol, row.fut_root_symbol,
                                  IF raw = None THEN 1 ELSE Val(raw)),
      qty_abs |-> IF row.qty_abs = None THEN Abs(qty_signed)
                  ELSE Val(row.qty_abs),
      price |-> IF row.price = None THEN 0 ELSE Val(row.price),
      dt |-> row.date_iso]

\* KeyOf without the strike.
KeyOfNoStrike(row) ==
  LET r == ReadRow(row)
  IN <<r.account, r.symbol, r.cm, r.is_option, r.expiry_date, "",
       r.option_type>>

\* KeyOf built from the multiplier as parsed, before its correction.
KeyOfRawMultiplier(row) ==
  LET r == ReadRow(row)
      raw == IF row.contract_multiplier = "" THEN None
             ELSE ParseFloat(row.contract_multiplier)
  IN <<r.account, r.symbol, IF raw = None THEN 1 ELSE Val(raw), r.is_option,
       r.expiry_date, r.strike, r.option_type>>

\* The identity key of a row's group; str(cm) and str(is_option) name the
\* number and the flag one to one, so the key holds them as they are.
KeyOf(row) ==
  LET r == ReadRow(row)
  IN <<r.account, r.symbol, r.cm, r.is_option, r.expiry_date, r.strike,
       r.option_type>>

\* The leg a row adds to its group.
MakeLeg(row) ==
  LET r == ReadRow(row)
  IN [message_id |-> row.message_id,
      trade_id |-> row.trade_id,
      side |-> row.side,
      qty |-> r.qty_abs,
      price |-> r.price,
      cashflow_per_unit |-> r.price * r.cm * (IF row.side = SELL THEN 1 ELSE -1),
      contract_multiplier |-> r.cm,
      underlying_mark |-> row.underlying_mark,
      impl_vol |-> row.impl_vol,
      dt |-> row.date_iso,
      subject |-> row.subject]

\* AddFill with `=` where the code has `+=` on the summed values.
AddFillOverwrite(g, side, qty, price, cm) ==
  IF side = BUY
    THEN [g EXCEPT !.qty_buy = @ + qty,
                   !.buy_value = price * qty,
                   !.cashflow = @ - price * qty * cm]
  ELSE IF side = SELL
    THEN [g EXCEPT !.qty_sell = @ + qty,
                   !.sell_value = price * qty,
                   !.cashflow = @ + price * qty * cm]
  ELSE g

\* AddFill booking a BUY into the cashflow with the sign of a SELL.
AddFillUnsigned(g, side, qty, price, cm) ==
  IF side = BUY
    THEN [g EXCEPT !.qty_buy = @ + qty,
                   !.buy_value = @ + price * qty,
                   !.cashflow = @ + price * qty * cm]
  ELSE IF side = SELL
    THEN [g EXCEPT !.qty_sell = @ + qty,
                   !.sell_value = @ + price * qty,
                   !.cashflow = @ + price * qty * cm]
  ELSE g

\* The running totals after a fill of `qty` at `price` on `side`.
AddFill(g, side, qty, price, cm) ==
  IF side = BUY
    THEN [g EXCEPT !.qty_buy = @ + qty,
                   !.buy_value = @ + price * qty,
                   !.cashflow = @ - price * qty * cm]
  ELSE IF side = SELL
    THEN [g EXCEPT !.qty_sell = @ + qty,
                   !.sell_value = @ + price * qty,
                   !.cashflow = @ + price * qty * cm]
  ELSE g

\* min_dt / max_dt after a fill at dt: the earlier (later) instant, the
\* one already held on a tie.
TrackDates(g, dt) ==
  [g EXCEPT
     !.min_dt = IF g.min_dt = None \/ Utc(dt) < Utc(Val(g.min_dt))
                THEN Some(dt) ELSE g.min_dt,
     !.max_dt = IF g.max_dt = None \/ Utc(dt) > Utc(Val(g.max_dt))
                THEN Some(dt) ELSE g.max_dt]

\* The group g after the row.
UpdateGroup(g, row) ==
  LET r == ReadRow(row)
      g1 == [g EXCEPT
               !.tzinfo = IF g.tzinfo = None THEN TzInfo(r.dt) ELSE g.tzinfo,
               !.any_expiry = IF r.expiry_date = "" THEN NoVal ELSE r.expiry_date,
               !.any_symbol = r.symbol,
               !.any_option_type =
                  IF r.option_type = "" THEN NoVal ELSE r.option_type,
               !.any_account = r.account,
               !.any_multiplier = Some(r.cm),
               !.is_option = Some(r.is_option),
               !.legs = Append(g.legs, MakeLeg(row))]
  IN TrackDates(AddFill(g1, row.side, r.qty_abs, r.price, r.cm), r.dt)

\* Position of key k in the dict `gs` (a sequence of [key, g] in insertion
\* order), 0 when absent.
IndexOfKey(gs, k) ==
  IF \E i \in 1..Len(gs) : gs[i].key = k
    THEN CHOOSE i \in 1..Len(gs) : gs[i].key = k
    ELSE 0

\* The row ends the run with a TypeError: its group already holds a
\* min_dt and the row's datetime cannot be compared with it (line 138).
RowRaises(gs, row) ==
  /\ Accepted(row)
  /\ LET i == IndexOfKey(gs, KeyOf(row))
     IN /\ i # 0
        /\ ~Comparable(row.date_iso, Val(gs[i].g.min_dt))

\* The dict after one row of the file.
Consume(gs, row) ==
  IF ~Accepted(row) THEN gs
  ELSE LET k == KeyOf(row)
           i == IndexOfKey(gs, k)
       IN IF i = 0
            THEN Append(gs, [key |-> k, g |-> UpdateGroup(NewGroup, row)])
            ELSE [gs EXCEPT ![i].g = UpdateGroup(@, row)]

(***************************************************************************)
(* build_round_trips.main, second loop: one group finalized.               *)
(***************************************************************************)

\* `cm = g["any_multiplier"] or 1.0`
GroupMultiplier(g) ==
  IF g.any_multiplier = None \/ Val(g.any_multiplier) = 0 THEN 1
  ELSE Val(g.any_multiplier)

\* SyntheticDue with the expiry day's end taken in UTC, not in the group's
\* timezone.
SyntheticDueUtc(key, g, now) ==
  LET expiry_date == key[5]
      net_qty == g.qty_buy - g.qty_sell
      expiry_d == IsoDay(expiry_date)
  IN /\ expiry_date # ""
     /\ net_qty # 0
     /\ expiry_d # None
     /\ Utc(EndOfDay(Val(expiry_d), 0)) < now

\* The second loop ends the run with a TypeError on this group: the test of
\* line 156 is reached with g["tzinfo"] None, so a naive end of day is
\* compared with the aware now_utc.astimezone(None).
GroupRaises(key, g) ==
  /\ key[5] # ""
  /\ g.qty_buy - g.qty_sell # 0
  /\ IsoDay(key[5]) # None
  /\ g.tzinfo = None

\* The test that guards the injection: a dated key, a non-zero net
\* quantity, a date fromisoformat accepts, and the expiry day's 23:59:59 in
\* the group's timezone earlier than `now` (UTC seconds).
SyntheticDue(key, g, now) ==
  LET expiry_date == key[5]
      net_qty == g.qty_buy - g.qty_sell
      expiry_d == IsoDay(expiry_date)
  IN /\ expiry_date # ""
     /\ net_qty # 0
     /\ expiry_d # None
     /\ Utc(EndOfDay(Val(expiry_d), Val(g.tzinfo))) < now

\* SyntheticLeg on the side of the open position instead of against it.
SyntheticLegSameSide(key, g) ==
  LET net_qty == g.qty_buy - g.qty_sell
      expiry_d == Val(IsoDay(key[5]))
  IN [message_id |-> NoVal,
      trade_id |-> SYN_EXP,
      side |-> IF net_qty > 0 THEN BUY ELSE SELL,
      qty |-> Abs(net_qty),
      price |-> 0,
      cashflow_per_unit |-> 0,
      contract_multiplier |-> GroupMultiplier(g),
      underlying_mark |-> None,
      impl_vol |-> None,
      dt |-> EndOfDay(expiry_d, Val(g.tzinfo)),
      subject |-> SyntheticSubject]

\* The synthetic leg of a group whose injection is due.
SyntheticLeg(key, g) ==
  LET net_qty == g.qty_buy - g.qty_sell
      expiry_d == Val(IsoDay(key[5]))
  IN [message_id |-> NoVal,
      trade_id |-> SYN_EXP,
      side |-> IF net_qty > 0 THEN SELL ELSE BUY,
      qty |-> Abs(net_qty),
      price |-> 0,
      cashflow_per_unit |-> 0,
      contract_multiplier |-> GroupMultiplier(g),
      underlying_mark |-> None,
      impl_vol |-> None,
      dt |-> EndOfDay(expiry_d, Val(g.tzinfo)),
      subject |-> SyntheticSubject]

\* InjectSynthetic putting the leg in front of the real legs.
InjectSyntheticFirst(key, g) ==
  LET leg == SyntheticLeg(key, g)
  IN [g EXCEPT
        !.legs = <<leg>> \o g.legs,
        !.max_dt = IF g.max_dt = None \/ Utc(leg.dt) > Utc(Val(g.max_dt))
                   THEN Some(leg.dt) ELSE g.max_dt]

\* InjectSynthetic that also books the leg in the running totals, as a
\* real fill at price 0.
InjectSyntheticCounted(key, g) ==
  LET leg == SyntheticLeg(key, g)
      g1 == AddFill(g, leg.side, leg.qty, 0, GroupMultiplier(g))
  IN [g1 EXCEPT
        !.legs = Append(g.legs, leg),
        !.max_dt = IF g.max_dt = None \/ Utc(leg.dt) > Utc(Val(g.max_dt))
                   THEN Some(leg.dt) ELSE g.max_dt]

\* InjectSynthetic that sets max_dt to the synthetic timestamp whatever the
\* fills' timestamps.
InjectSyntheticAlwaysMoves(key, g) ==
  LET leg == SyntheticLeg(key, g)
  IN [g EXCEPT !.legs = Append(g.legs, leg), !.max_dt = Some(leg.dt)]

\* The group after the injection: the leg appended, max_dt moved to the
\* synthetic timestamp when that is later; nothing else is assigned.
InjectSynthetic(key, g) ==
  LET leg == SyntheticLeg(key, g)
  IN [g EXCEPT
        !.legs = Append(g.legs, leg),
        !.max_dt = IF g.max_dt = None \/ Utc(leg.dt) > Utc(Val(g.max_dt))
                   THEN Some(leg.dt) ELSE g.max_dt]

\* CloseGroup without the comparison against the clock.
CloseGroupSkipsClock(key, g, now) ==
  IF key[5] # "" /\ g.qty_buy - g.qty_sell # 0 /\ IsoDay(key[5]) # None
    THEN InjectSynthetic(key, g) ELSE g

\* The group as the second loop leaves it.
CloseGroup(key, g, now) ==
  IF SyntheticDue(key, g, now) THEN InjectSynthetic(key, g) ELSE g

\* RealizedPnl with quantize's default rounding, ROUND_HALF_EVEN.
RealizedPnlHalfEven(g) ==
  LET x == Abs(g.cashflow)
      q == x \div 10
      r == x % 10
      c == IF r > 5 \/ (r = 5 /\ q % 2 = 1) THEN q + 1 ELSE q
  IN IF g.cashflow >= 0 THEN c ELSE -c

\* realized_pnl: the cashflow (mils) quantized half-up to cents.
RealizedPnl(g) == QuantizeHalfUp(g.cashflow, 10)

\* The round trip object appended to `out`; float() of a Decimal of this
\* size and its JSON text denote the same number, which the model keeps.
RoundTrip(id, key, g, synthetic_expiration) ==
  [round_trip_id |-> id,
   account |-> key[1],
   symbol |-> key[2],
   contract_multiplier |-> GroupMultiplier(g),
   is_option |-> key[4],
   expiry_date |-> IF key[5] # "" THEN key[5] ELSE NoVal,
   strike |-> IF key[6] # "" THEN ParseFloat(key[6]) ELSE None,
   option_type |-> IF key[7] # "" THEN key[7] ELSE NoVal,
   qty_buy |-> g.qty_buy,
   qty_sell |-> g.qty_sell,
   buy_vwap |-> vwap(g.qty_buy, g.buy_value),
   sell_vwap |-> vwap(g.qty_sell, g.sell_value),
   gross_buy_value |-> IF g.qty_buy # 0 THEN g.buy_value ELSE 0,
   gross_sell_value |-> IF g.qty_sell # 0 THEN g.sell_value ELSE 0,
   realized_pnl_cash |-> RealizedPnl(g),
   open_dt |-> g.min_dt,
   close_dt |-> g.max_dt,
   synthetic_expiration |-> synthetic_expiration,
   legs |-> g.legs]

(***************************************************************************)
(* round_trip_validator.main.  The statements from `side = ...` on are     *)
(* indented less than the two for loops, so Python runs them once, after   *)
(* both loops have ended, with the names the loops left behind: `rt` is    *)
(* the last round trip, `leg` and `is_synth` belong to the last leg        *)
(* iterated, the four running sums are the zeros the last pass set.        *)
(***************************************************************************)

\* TOL = Decimal("0.0001"), in micro.
TOL == 100

\* `(leg.get("subject") or "").lower().startswith("synthetic expiration")`
SubjectSaysSynthetic(subject) == subject = SyntheticSubject

is_synth(leg) ==
  \/ leg.trade_id = SYN_EXP
  \/ SubjectSaysSynthetic(leg.subject)
  \/ (leg.message_id = NoVal /\ leg.price = 0)

Issue(rt, what) == [rt |-> rt.round_trip_id, what |-> what]

\* The issues in a sequence of [when, issue] whose `when` holds, in order.
RECURSIVE Raised(_)
Raised(checks) ==
  IF checks = <<>> THEN <<>>
  ELSE (IF Head(checks)[1] THEN <<Head(checks)[2]>> ELSE <<>>)
       \o Raised(Tail(checks))

\* The checks made inside `for rt in data`: missing fields and dates.
LoopIssues(rt) ==
  Raised(<<
    <<rt.account = NoVal, Issue(rt, "Missing field: account")>>,
    <<rt.symbol = NoVal, Issue(rt, "Missing field: symbol")>>,
    <<rt.open_dt # None /\ rt.close_dt # None
        /\ Utc(Val(rt.open_dt)) > Utc(Val(rt.close_dt)),
      Issue(rt, "open_dt after close_dt")>> >>)

\* The checks made after the loops on round trip rt, with the one leg the
\* inner loop ended on.
TailIssues(rt, leg) ==
  IF is_synth(leg) THEN <<>>
  ELSE
    LET cm == rt.contract_multiplier
        side == Upper(leg.side)
        qty == leg.qty
        price == leg.price
        buy_value == IF side = BUY THEN price * qty ELSE 0
        buy_qty == IF side = BUY THEN qty ELSE 0
        sell_value == IF side = SELL THEN price * qty ELSE 0
        sell_qty == IF side = SELL THEN qty ELSE 0
        calc_buy_vwap == vwap(buy_qty, buy_value)
        calc_sell_vwap == vwap(sell_qty, sell_value)
        calc_pnl == (sell_value - buy_value) * cm
    IN Raised(<<
         <<rt.qty_buy # buy_qty, Issue(rt, "qty_buy mismatch")>>,
         <<rt.qty_sell # sell_qty, Issue(rt, "qty_sell mismatch")>>,
         <<rt.gross_buy_value # buy_value,
           Issue(rt, "gross_buy_value mismatch")>>,
         <<rt.gross_sell_value # sell_value,
           Issue(rt, "gross_sell_value mismatch")>>,
         <<rt.buy_vwap # None /\ calc_buy_vwap # None
             /\ Abs(Val(rt.buy_vwap) - Val(calc_buy_vwap)) > TOL,
           Issue(rt, "buy_vwap mismatch")>>,
         <<rt.sell_vwap # None /\ calc_sell_vwap # None
             /\ Abs(Val(rt.sell_vwap) - Val(calc_sell_vwap)) > TOL,
           Issue(rt, "sell_vwap mismatch")>>,
         <<Abs(rt.realized_pnl_cash * 10 - calc_pnl) > 10,
           Issue(rt, "realized_pnl_cash mismatch")>>,
         <<rt.synthetic_expiration /\ buy_qty - sell_qty # 0,
           Issue(rt, "synthetic_expiration true but net_qty_after != 0")>> >>)

RECURSIVE AllLoopIssues(_)
AllLoopIssues(data) ==
  IF data = <<>> THEN <<>>
  ELSE LoopIssues(Head(data)) \o AllLoopIssues(Tail(data))

\* The legs the inner loop went through, over the whole file, in order.
RECURSIVE LegsIterated(_)
LegsIterated(data) ==
  IF data = <<>> THEN <<>>
  ELSE Head(data).legs \o LegsIterated(Tail(data))

\* One run of the validator on the ledger `data`: the issues listed, or a
\* crash (NameError on `leg`) when no leg was ever iterated.
ValidatorRun(data) ==
  IF LegsIterated(data) = <<>>
    THEN [crashed |-> TRUE, issues |-> <<>>]
    ELSE [crashed |-> FALSE,
          issues |-> AllLoopIssues(data)
                     \o TailIssues(Last(data), Last(LegsIterated(data)))]

(***************************************************************************)
(* The run: the input file is read row by row, the groups are finalized    *)
(* in insertion order, the ledger is written, the validator audits it.     *)
(***************************************************************************)
VARIABLES
  feed,     \* the input family the file's rows come from
  rows,     \* the rows of the file read so far
  groups,   \* the dict `groups`: a sequence of [key, g] in insertion order
  now_utc,  \* `now_utc`, None until the file is read
  gi,       \* position of the second loop in `groups`
  out,      \* the list `out`
  rid,      \* the counter `rid`
  ledger,   \* the JSON file written, None until json.dump
  report,   \* the validator's outcome, None until it ran
  pc        \* "read", "finalize", "written", "validated", or "crashed"
            \* once the aggregator died of an uncaught exception

\* The aggregator and the validator.
engineVars == <<feed, rows, groups, now_utc, gi, out, rid, ledger, report, pc>>

\* The subject parsers (tos_trade_parser.py, subject_parser.py).
VARIABLES
  subject,  \* the subject string, as its sequence of tokens
  tos_out,  \* what tos_trade_parser.parse_trade_subject returned, or None
  sp_out    \* what subject_parser.parse_trade_subject returned, or None

parserVars == <<subject, tos_out, sp_out>>

\* gmail_attachements_downloader.main, run after run.
VARIABLES
  resume_file,   \* the lines of processed_ids.txt, on disk
  manifest,      \* the rows of manifest.csv that reached the disk
  manifest_fp,   \* rows written to manifest_fp and not flushed yet
  out_dir,       \* the attachment files saved, as [msg, att]
  dl_processed,  \* the set `processed` of the run
  dl_pos,        \* position of `for msg_id in list_message_ids(...)`
  dl_part,       \* position of `for part in iter_parts(payload)`
  dl_fetches,    \* the message ids fetch_message was called with, in order
  dl_run,        \* how many runs were started
  dl_pc          \* "idle", "loop", "parts", "log", "stopped"

downloaderVars == <<resume_file, manifest, manifest_fp, out_dir, dl_processed,
                    dl_pos, dl_part, dl_fetches, dl_run, dl_pc>>

\* gmail_subject_exporter.main with --supabase, run after run.
VARIABLES
  ex_resume,     \* the lines of the exporter's processed_ids.txt
  ex_csv,        \* the message ids of the rows of the CSV file
  db_buffer,     \* the list `db_buffer`
  db_table,      \* the message ids of the rows upserted into the table
  ex_processed,  \* the set `processed` of the run
  ex_pos,        \* position of `for msg_id in list_message_ids(...)`
  count_msgs,    \* the counter `count_msgs`
  ex_limit,      \* args.limit of the run
  ex_run,        \* how many runs were started
  ex_pc          \* "idle", "loop", "row", "mark", "flush", "stopped"

exporterVars == <<ex_resume, ex_csv, db_buffer, db_table, ex_processed,
                  ex_pos, count_msgs, ex_limit, ex_run, ex_pc>>

\* db_trade_insert.ingest_csv.
VARIABLES
  csv_rows,      \* the CSV file: per row, whether its upsert succeeds
  total,         \* the counter `total`
  in_txn,        \* row numbers upserted in the open transaction
  db_trades,     \* row numbers whose trade is committed
  error_rows,    \* the list `error_rows`, as row numbers
  ing_pc         \* "idle", "rows", "batch", "final", "done"

ingestVars == <<csv_rows, total, in_txn, db_trades, error_rows, ing_pc>>

\* with_backoff.
VARIABLES
  max_tries,     \* the parameter `max_tries`
  attempt,       \* the counter `attempt`
  calls,         \* how many times callable_fn was invoked
  outcomes,      \* what each invocation did, in order
  bo_result,     \* how with_backoff ended, and with which invocation's
                 \* value or error
  bo_pc          \* "idle", "call", "handle", "returned", "raised"

backoffVars == <<max_tries, attempt, calls, outcomes, bo_result, bo_pc>>

vars == <<engineVars, parserVars, downloaderVars, exporterVars, ingestVars,
          backoffVars>>

\* The other programs have not been started.
ParserIdle == subject = <<>> /\ tos_out = None /\ sp_out = None

DownloaderIdle ==
  /\ resume_file = <<>>
  /\ manifest = <<>>
  /\ manifest_fp = <<>>
  /\ out_dir = <<>>
  /\ dl_processed = {}
  /\ dl_pos = 1
  /\ dl_part = 1
  /\ dl_fetches = <<>>
  /\ dl_run = 0
  /\ dl_pc = "idle"

ExporterIdle ==
  /\ ex_resume = <<>>
  /\ ex_csv = <<>>
  /\ db_buffer = <<>>
  /\ db_table = {}
  /\ ex_processed = {}
  /\ ex_pos = 1
  /\ count_msgs = 0
  /\ ex_limit = 0
  /\ ex_run = 0
  /\ ex_pc = "idle"

IngestIdle ==
  /\ csv_rows = <<>>
  /\ total = 0
  /\ in_txn = {}
  /\ db_trades = {}
  /\ error_rows = <<>>
  /\ ing_pc = "idle"

BackoffIdle ==
  /\ max_tries = 0
  /\ attempt = 0
  /\ calls = 0
  /\ outcomes = <<>>
  /\ bo_result = None
  /\ bo_pc = "idle"

EngineIdle ==
  /\ feed = "numeric"
  /\ rows = <<>>
  /\ groups = <<>>
  /\ now_utc = None
  /\ gi = 1
  /\ out = <<>>
  /\ rid = 1
  /\ ledger = None
  /\ report = None
  /\ pc = "idle"

Init ==
  /\ feed \in Feeds
  /\ rows = <<>>
  /\ groups = <<>>
  /\ now_utc = None
  /\ gi = 1
  /\ out = <<>>
  /\ rid = 1
  /\ ledger = None
  /\ report = None
  /\ pc = "read"
  /\ ParserIdle /\ DownloaderIdle /\ ExporterIdle /\ IngestIdle /\ BackoffIdle

\* One pass of `for row in reader`.
ReadNextRow ==
  /\ pc = "read"
  /\ Len(rows) < MaxFills
  /\ \E row \in Rows(feed) :
       IF RowRaises(groups, row)
         THEN /\ pc' = "crashed"
              /\ UNCHANGED <<rows, groups>>
         ELSE /\ rows' = Append(rows, row)
              /\ groups' = Consume(groups, row)
              /\ pc' = pc
  /\ UNCHANGED <<feed, now_utc, gi, out, rid, ledger, report>>
  /\ UNCHANGED <<parserVars, downloaderVars, exporterVars, ingestVars, backoffVars>>

\* The file is exhausted: `now_utc = datetime.now(timezone.utc)`.
EndOfFile ==
  /\ pc = "read"
  /\ \E now \in Nows(feed) : now_utc' = Some(now)
  /\ pc' = "finalize"
  /\ UNCHANGED <<feed, rows, groups, gi, out, rid, ledger, report>>
  /\ UNCHANGED <<parserVars, downloaderVars, exporterVars, ingestVars, backoffVars>>

\* One pass of `for key, g in groups.items()`.
FinalizeGroup ==
  /\ pc = "finalize"
  /\ gi <= Len(groups)
  /\ LET key == groups[gi].key
         g == groups[gi].g
         g2 == CloseGroup(key, g, Val(now_utc))
     IN IF GroupRaises(key, g)
          THEN /\ pc' = "crashed"
               /\ UNCHANGED <<groups, out, rid, gi>>
          ELSE /\ groups' = [groups EXCEPT ![gi].g = g2]
               /\ out' = Append(out, RoundTrip(rid, key, g2,
                                               SyntheticDue(key, g, Val(now_utc))))
               /\ rid' = rid + 1
               /\ gi' = gi + 1
               /\ pc' = pc
  /\ UNCHANGED <<feed, rows, now_utc, ledger, report>>
  /\ UNCHANGED <<parserVars, downloaderVars, exporterVars, ingestVars, backoffVars>>

\* json.dump(out, f)
WriteLedger ==
  /\ pc = "finalize"
  /\ gi > Len(groups)
  /\ ledger' = Some(out)
  /\ pc' = "written"
  /\ UNCHANGED <<feed, rows, groups, now_utc, gi, out, rid, report>>
  /\ UNCHANGED <<parserVars, downloaderVars, exporterVars, ingestVars, backoffVars>>

\* Validate that also writes the stored qty_buy back as it recomputed it.
ValidateAndRepair ==
  /\ pc = "written"
  /\ report' = Some(ValidatorRun(Val(ledger)))
  /\ ledger' =
       IF Val(report').issues = <<>> THEN ledger
       ELSE LET data == Val(ledger)
                n == Len(data)
                leg == Last(data[n].legs)
            IN Some([data EXCEPT ![n].qty_buy =
                       IF leg.side = BUY THEN leg.qty ELSE 0])
  /\ pc' = "validated"
  /\ UNCHANGED <<feed, rows, groups, now_utc, gi, out, rid>>
  /\ UNCHANGED <<parserVars, downloaderVars, exporterVars, ingestVars, backoffVars>>

\* round_trip_validator.main on the ledger file.
Validate ==
  /\ pc = "written"
  /\ report' = Some(ValidatorRun(Val(ledger)))
  /\ pc' = "validated"
  /\ UNCHANGED <<feed, rows, groups, now_utc, gi, out, rid, ledger>>
  /\ UNCHANGED <<parserVars, downloaderVars, exporterVars, ingestVars, backoffVars>>

Next ==
  \/ ReadNextRow
  \/ EndOfFile
  \/ FinalizeGroup
  \/ WriteLedger
  \/ Validate

Spec == Init /\ [][Next]_vars

\* The ways the ledger file is edited between the aggregator's run and the
\* validator's: a stored qty_buy or realized_pnl_cash changed, the
\* synthetic_expiration flag set, the quantity of the last leg changed.
Edits == {"qty_buy", "realized_pnl_cash", "synthetic_expiration", "leg_qty"}

\* The ledger data with round trip i edited.
Edited(data, i, edit) ==
  LET rt == data[i]
      n == Len(rt.legs)
  IN [data EXCEPT ![i] =
        CASE edit = "qty_buy" -> [rt EXCEPT !.qty_buy = rt.qty_buy + 1]
          [] edit = "realized_pnl_cash" ->
               [rt EXCEPT !.realized_pnl_cash = rt.realized_pnl_cash + 100]
          [] edit = "synthetic_expiration" ->
               [rt EXCEPT !.synthetic_expiration = TRUE]
          [] edit = "leg_qty" ->
               [rt EXCEPT !.legs = [rt.legs EXCEPT ![n].qty = rt.legs[n].qty + 1]]]

\* The ledger file is edited, once, before round_trip_validator.py reads it:
\* the file named on its command line is whatever is on disk then.
EditLedger ==
  /\ pc = "written"
  /\ Val(ledger) = out
  /\ \E i \in 1..Len(out), edit \in Edits :
       /\ Edited(out, i, edit) # out
       /\ ledger' = Some(Edited(out, i, edit))
  /\ UNCHANGED <<feed, rows, groups, now_utc, gi, out, rid, report, pc>>
  /\ UNCHANGED <<parserVars, downloaderVars, exporterVars, ingestVars, backoffVars>>

NextAudit ==
  \/ Next
  \/ EditLedger

\* The runs in which the validator may be given an edited ledger.
InitAudit == Init /\ feed = "audit"

SpecAudit == InitAudit /\ [][NextAudit]_vars

\* The runs over the "numeric" family alone, for the comparison of a run
\* with every reordering of its file.
InitNumeric == Init /\ feed = "numeric"

SpecNumeric == InitNumeric /\ [][Next]_vars

(***************************************************************************)
(* The aggregator as a function of the whole file, for statements that     *)
(* compare runs.                                                           *)
(***************************************************************************)

\* The dict after the rows rs, starting from gs.
RECURSIVE ConsumeAll(_, _)
ConsumeAll(gs, rs) ==
  IF rs = <<>> THEN gs
  ELSE ConsumeAll(Consume(gs, Head(rs)), Tail(rs))

\* The round trip the second loop makes of the dict entry e, the id-th.
Finalized(e, id, now) ==
  RoundTrip(id, e.key, CloseGroup(e.key, e.g, now),
            SyntheticDue(e.key, e.g, now))

(***************************************************************************)
(* Vocabulary of the properties.                                           *)
(***************************************************************************)

IsSyntheticLeg(leg) == leg.trade_id = SYN_EXP

RealLegs(rt) == SelectSeq(rt.legs, LAMBDA l : ~IsSyntheticLeg(l))

SyntheticLegs(rt) == SelectSeq(rt.legs, IsSyntheticLeg)

\* Sum of qty over the legs of one side.
RECURSIVE SideQty(_, _)
SideQty(legs, side) ==
  IF legs = <<>> THEN 0
  ELSE (IF Head(legs).side = side THEN Head(legs).qty ELSE 0)
       + SideQty(Tail(legs), side)

\* Sum of price * qty (mils) over the legs of one side.
RECURSIVE SideValue(_, _)
SideValue(legs, side) ==
  IF legs = <<>> THEN 0
  ELSE (IF Head(legs).side = side THEN Head(legs).price * Head(legs).qty ELSE 0)
       + SideValue(Tail(legs), side)

\* c is x / unit rounded to a whole number, ties away from zero.
IsHalfUp(c, x, unit) ==
  IF x >= 0
    THEN 2 * unit * c - unit <= 2 * x /\ 2 * x < 2 * unit * c + unit
    ELSE 2 * unit * c - unit < 2 * x /\ 2 * x <= 2 * unit * c + unit

\* The accepted rows of the file whose group has key k, in file order.
FillsOfKey(k) == SelectSeq(rows, LAMBDA r : Accepted(r) /\ KeyOf(r) = k)

\* The legs the rows fs become.
LegsOfFills(fs) == [j \in 1..Len(fs) |-> MakeLeg(fs[j])]

\* Net quantity of the fills fs, from the rows' own columns.
RECURSIVE NetOfFills(_)
NetOfFills(fs) ==
  IF fs = <<>> THEN 0
  ELSE LET f == Head(fs)
           qty == IF f.qty_abs # None THEN Val(f.qty_abs)
                  ELSE IF f.qty_signed # None THEN Abs(Val(f.qty_signed))
                  ELSE 0
       IN (IF f.side = BUY THEN qty ELSE IF f.side = SELL THEN -qty ELSE 0)
          + NetOfFills(Tail(fs))

\* The expiry text names a day whose 23:59:59 at offset tz is before now.
ExpiryPassed(expiry_date, tz, now) ==
  /\ IsoDay(expiry_date) # None
  /\ Val(IsoDay(expiry_date)) * 86400 + 86399 - tz < now

\* The ledger is complete.
Emitted == pc \in {"written", "validated"}

Emits == 1..Len(out)

(***************************************************************************)
(* C1 - C3                                                                 *)
(***************************************************************************)

\* C1: Validator soundness: whatever the accepted fills and the processing
\* instant, the validator run on the ledger the aggregator just wrote
\* reports zero issues, also when a round trip has several legs or a
\* synthetic leg.
C1_ValidatorSoundness ==
  report # None => Val(report).issues = <<>>

\* C2: Synthetic-flatness: in every emitted round trip with
\* synthetic_expiration = true, the BUY quantities minus the SELL quantities
\* over all legs, the synthetic one included, is 0.
C2_SyntheticFlatness ==
  \A i \in Emits :
    out[i].synthetic_expiration
      => SideQty(out[i].legs, BUY) - SideQty(out[i].legs, SELL) = 0

\* C2 happens: a round trip closed synthetically after two real fills.
C2_Witness ==
  \E i \in Emits :
    /\ out[i].synthetic_expiration
    /\ Len(RealLegs(out[i])) >= 2
    /\ Len(SyntheticLegs(out[i])) = 1

\* C3: the synthetic leg's quantity is added to the stored qty_buy or
\* qty_sell, so every emitted round trip with synthetic_expiration = true
\* has stored qty_buy - qty_sell = 0.
C3_SyntheticCountedInStoredQty ==
  \A i \in Emits :
    out[i].synthetic_expiration => out[i].qty_buy - out[i].qty_sell = 0

(***************************************************************************)
(* C4 - C5                                                                 *)
(***************************************************************************)

\* What C4 compares of a round trip, with its identity key.
Totals(key, rt) ==
  <<key, rt.qty_buy, rt.qty_sell, rt.buy_vwap, rt.sell_vwap,
    rt.realized_pnl_cash>>

\* The totals per key of a whole run over the rows rs at the instant now.
TotalsOfRun(rs, now) ==
  LET gs == ConsumeAll(<<>>, rs)
  IN { Totals(gs[i].key, Finalized(gs[i], i, now)) : i \in 1..Len(gs) }

\* The rows rs in the order p, a permutation of their positions.
Permuted(rs, p) == [i \in 1..Len(rs) |-> rs[p[i]]]

\* C4: Order independence: for any two orders of the same fills and the same
\* processing instant the aggregator gives every identity key the same
\* qty_buy, qty_sell, buy_vwap, sell_vwap and realized_pnl_cash.
C4_OrderIndependence ==
  pc = "written" =>
    \A p \in Permutations(1..Len(rows)) :
      TotalsOfRun(Permuted(rows, p), Val(now_utc))
        = { Totals(groups[i].key, out[i]) : i \in Emits }

\* C4 happens: a round trip built from two BUY fills that differ, besides a
\* fill of another key, so that some other order changes the arrival order
\* inside the group and the order of the groups.
C4_Witness ==
  /\ pc = "written"
  /\ Len(out) >= 2
  /\ \E i \in Emits :
       /\ Len(out[i].legs) >= 2
       /\ out[i].legs[1].side = BUY
       /\ out[i].legs[2].side = BUY
       /\ out[i].legs[1].price # out[i].legs[2].price

\* The round-trip law on one round trip: realized_pnl_cash (cents) is the
\* half-up rounding of (SELL value - BUY value) * multiplier (mils).
PnlLaw(rt) ==
  IsHalfUp(rt.realized_pnl_cash,
           (SideValue(rt.legs, SELL) - SideValue(rt.legs, BUY))
             * rt.contract_multiplier,
           10)

\* The round trip of Scenario 1: BUY 10 @ 1.00 and SELL 10 @ 1.50,
\* multiplier 100, no synthetic leg.
IsScenario1(rt) ==
  /\ rt.contract_multiplier = 100
  /\ Len(rt.legs) = 2
  /\ \E a, b \in 1..2 :
       /\ a # b
       /\ rt.legs[a].side = BUY /\ rt.legs[a].qty = 10
       /\ rt.legs[a].price = 1000
       /\ rt.legs[b].side = SELL /\ rt.legs[b].qty = 10
       /\ rt.legs[b].price = 1500

\* C5 as stated: Round-trip law: every emitted round trip without a
\* synthetic leg has realized_pnl_cash = (SELL value - BUY value) *
\* multiplier rounded half-up to 2 digits, whatever the order of its legs,
\* and BUY 10 @ 1.00 with SELL 10 @ 1.50 at multiplier 100 gives 50.00.
C5_RoundTripLaw_Original ==
  \A i \in Emits :
    SyntheticLegs(out[i]) = <<>>
      => /\ PnlLaw(out[i])
         /\ IsScenario1(out[i]) => out[i].realized_pnl_cash = 5000

\* C5 amended: the same law, and BUY 10 @ 1.00 with SELL 10 @ 1.50 at
\* multiplier 100 gives 500.00.
C5_RoundTripLaw ==
  \A i \in Emits :
    SyntheticLegs(out[i]) = <<>>
      => /\ PnlLaw(out[i])
         /\ IsScenario1(out[i]) => out[i].realized_pnl_cash = 50000

\* C5 happens: the ledger holds the round trip of Scenario 1 and a round
\* trip without synthetic leg whose cashflow is not a whole number of cents.
C5_Witness ==
  /\ \E i \in Emits : IsScenario1(out[i])
  /\ \E j \in Emits :
       /\ SyntheticLegs(out[j]) = <<>>
       /\ ((SideValue(out[j].legs, SELL) - SideValue(out[j].legs, BUY))
             * out[j].contract_multiplier) % 10 # 0

(***************************************************************************)
(* C6 - C10.  out[i] is the round trip of the group groups[i].             *)
(***************************************************************************)

\* The condition of C6 for the group of key k, from the rows of the file:
\* a non-zero net quantity and an expiry day that ended, in the timezone of
\* the group's (first) fill, before the processing instant.
InjectionCalledFor(k) ==
  LET fills == FillsOfKey(k)
  IN /\ NetOfFills(fills) # 0
     /\ k[5] # ""
     /\ ExpiryPassed(k[5], fills[1].date_iso.tz, Val(now_utc))

\* C6: a group receives a synthetic leg if and only if its net quantity is
\* non-zero and it has an expiry_date whose end of day (23:59:59 in the
\* timezone of the group's fills) is earlier than the processing instant;
\* then exactly one synthetic leg is injected.
C6_SyntheticIff ==
  \A i \in Emits :
    Len(SyntheticLegs(out[i]))
      = IF InjectionCalledFor(groups[i].key) THEN 1 ELSE 0

\* C6 happens: a group whose fills carry two timezones, processed at an
\* instant after the expiry day's end in the first fill's timezone and
\* before it in the other, is closed synthetically.
C6_Witness ==
  \E i \in Emits :
    LET fills == FillsOfKey(groups[i].key)
    IN /\ Len(SyntheticLegs(out[i])) = 1
       /\ Len(fills) >= 2
       /\ ExpiryPassed(groups[i].key[5], fills[1].date_iso.tz, Val(now_utc))
       /\ ~ExpiryPassed(groups[i].key[5], fills[2].date_iso.tz, Val(now_utc))

\* C7: every synthetic leg has side SELL for a positive net quantity and BUY
\* for a negative one, qty the absolute net, price 0, cashflow_per_unit 0, no
\* message id, the sentinel trade_id and the expiry end-of-day timestamp, and
\* is the last leg, after all real legs in fill arrival order.
C7_SyntheticLegShape ==
  \A i \in Emits :
    out[i].synthetic_expiration =>
      LET legs == out[i].legs
          n == Len(legs)
          fills == FillsOfKey(groups[i].key)
          net == NetOfFills(fills)
          day == Val(IsoDay(groups[i].key[5]))
      IN /\ n = Len(fills) + 1
         /\ SubSeq(legs, 1, n - 1) = LegsOfFills(fills)
         /\ \A j \in 1..(n - 1) : ~IsSyntheticLeg(legs[j])
         /\ legs[n].trade_id = SYN_EXP
         /\ legs[n].message_id = NoVal
         /\ net # 0
         /\ legs[n].side = (IF net > 0 THEN SELL ELSE BUY)
         /\ legs[n].qty = Abs(net)
         /\ legs[n].price = 0
         /\ legs[n].cashflow_per_unit = 0
         /\ legs[n].dt = [local |-> day * 86400 + 86399,
                          tz |-> fills[1].date_iso.tz]

\* C7 happens: a synthetic BUY closes a net short position of two fills.
C7_Witness ==
  \E i \in Emits :
    /\ out[i].synthetic_expiration
    /\ Len(out[i].legs) = 3
    /\ Last(out[i].legs).side = BUY
    /\ Last(out[i].legs).qty >= 2

\* C8: injecting the synthetic leg leaves the group's running cashflow,
\* gross_buy_value, gross_sell_value, buy_vwap, sell_vwap and open_dt
\* unchanged: the round trip's realized_pnl_cash (and these fields) are what
\* the real legs alone give.
C8_SyntheticLeavesTotals ==
  [][ (pc = "finalize" /\ Len(out') = Len(out) + 1
         /\ Last(out').synthetic_expiration)
      => LET g == groups[gi].g
             g2 == groups'[gi].g
             rt == Last(out')
             real == RealLegs(rt)
         IN /\ g2.cashflow = g.cashflow
            /\ g2.buy_value = g.buy_value
            /\ g2.sell_value = g.sell_value
            /\ g2.min_dt = g.min_dt
            /\ rt.gross_buy_value = SideValue(real, BUY)
            /\ rt.gross_sell_value = SideValue(real, SELL)
            /\ rt.buy_vwap = vwap(SideQty(real, BUY), SideValue(real, BUY))
            /\ rt.sell_vwap = vwap(SideQty(real, SELL), SideValue(real, SELL))
            /\ rt.open_dt = g.min_dt
            /\ IsHalfUp(rt.realized_pnl_cash,
                        (SideValue(real, SELL) - SideValue(real, BUY))
                          * rt.contract_multiplier, 10) ]_vars

\* C8 happens: a round trip closed synthetically whose real legs trade on
\* both sides for a cashflow that is not a whole number of cents.
C8_Witness ==
  \E i \in Emits :
    /\ out[i].synthetic_expiration
    /\ SideQty(RealLegs(out[i]), BUY) > 0
    /\ SideQty(RealLegs(out[i]), SELL) > 0
    /\ out[i].realized_pnl_cash # 0
    /\ ((SideValue(out[i].legs, SELL) - SideValue(out[i].legs, BUY))
          * out[i].contract_multiplier) % 10 # 0

\* The group of key k is one C9 says is never touched: net-flat, undated,
\* or with an expiry day that has not ended yet.
NeverTouched(k) ==
  LET fills == FillsOfKey(k)
  IN \/ NetOfFills(fills) = 0
     \/ k[5] = ""
     \/ /\ IsoDay(k[5]) # None
        /\ ~ExpiryPassed(k[5], fills[1].date_iso.tz, Val(now_utc))

\* C9: synthetic_expiration is true on a round trip if and only if its legs
\* contain a synthetic leg; a group that is net-flat, undated or not yet
\* expired is emitted with exactly the legs of its fills and with close_dt
\* its latest fill timestamp.
C9_FlagIffSyntheticLeg ==
  \A i \in Emits :
    LET fills == FillsOfKey(groups[i].key)
    IN /\ out[i].synthetic_expiration
            <=> (\E j \in 1..Len(out[i].legs) : IsSyntheticLeg(out[i].legs[j]))
       /\ NeverTouched(groups[i].key)
            => /\ ~out[i].synthetic_expiration
               /\ out[i].legs = LegsOfFills(fills)
               /\ \E j \in 1..Len(fills) :
                    Val(out[i].close_dt) = fills[j].date_iso
               /\ \A j \in 1..Len(fills) :
                    Utc(fills[j].date_iso) <= Utc(Val(out[i].close_dt))

\* C9 happens: one ledger holds a round trip closed synthetically and a
\* dated one, with an open position of two fills, that is not.
C9_Witness ==
  \E i, j \in Emits :
    /\ out[i].synthetic_expiration
    /\ ~out[j].synthetic_expiration
    /\ NeverTouched(groups[j].key)
    /\ IsoDay(groups[j].key[5]) # None
    /\ Len(out[j].legs) = 2
    /\ out[j].qty_buy # out[j].qty_sell

\* The identity of a fill as C10 names it, from the row's columns.
FillIdentity(row) ==
  <<row.account, row.symbol,
    normalize_multiplier(row.symbol, row.fut_root_symbol,
      IF row.contract_multiplier = "" \/ ParseFloat(row.contract_multiplier) = None
        THEN 1 ELSE Val(ParseFloat(row.contract_multiplier))),
    Truthy(row.is_option), row.expiry_date, row.strike, row.option_type>>

\* The distinct identities of the rows rs, in order of first appearance.
RECURSIVE FirstSeen(_, _)
FirstSeen(seen, rs) ==
  IF rs = <<>> THEN seen
  ELSE IF \E i \in 1..Len(seen) : seen[i] = FillIdentity(Head(rs))
    THEN FirstSeen(seen, Tail(rs))
    ELSE FirstSeen(Append(seen, FillIdentity(Head(rs))), Tail(rs))

RECURSIVE SignedCashflow(_)
SignedCashflow(legs) ==
  IF legs = <<>> THEN 0
  ELSE LET l == Head(legs)
           amount == l.price * l.qty * l.contract_multiplier
       IN (IF l.side = BUY THEN -amount
           ELSE IF l.side = SELL THEN amount ELSE 0)
          + SignedCashflow(Tail(legs))

\* C11: after any sequence of consumed fills, each group's qty_buy is the
\* sum of qty over its non-synthetic BUY legs, its qty_sell the sum over its
\* non-synthetic SELL legs, and its running cashflow the sum over its real
\* legs of price * qty * multiplier, signed -1 for BUY and +1 for SELL.
C11_RunningTotals ==
  \A i \in 1..Len(groups) :
    LET g == groups[i].g
        real == SelectSeq(g.legs, LAMBDA l : ~IsSyntheticLeg(l))
    IN /\ g.qty_buy = SideQty(real, BUY)
       /\ g.qty_sell = SideQty(real, SELL)
       /\ g.cashflow = SignedCashflow(real)

\* C11 happens: a group holds real legs on both sides, at a multiplier
\* other than 1 and for a cashflow other than 0, and a synthetic leg.
C11_Witness ==
  \E i \in 1..Len(groups) :
    LET g == groups[i].g
    IN /\ g.qty_buy > 0 /\ g.qty_sell > 0
       /\ g.cashflow # 0
       /\ Val(g.any_multiplier) > 1
       /\ \E j \in 1..Len(g.legs) : IsSyntheticLeg(g.legs[j])

(***************************************************************************)
(* C12 - C13                                                               *)
(***************************************************************************)

\* The multiplier C12 gives a fill, from the row's columns.
PriorityMultiplier(row) ==
  IF row.fut_root_symbol = "/ES" THEN 50
  ELSE IF row.symbol \in {"SPX", "SPY"} THEN 100
  ELSE IF row.contract_multiplier = "" THEN 1
  ELSE IF ParseFloat(row.contract_multiplier) = None THEN 1
  ELSE Val(ParseFloat(row.contract_multiplier))

\* C12: multiplier normalization follows a fixed priority: futures root /ES
\* gives 50 whatever the symbol and the raw value; otherwise symbol SPX or
\* SPY gives 100; otherwise the parsed multiplier, or 1 when the raw
\* multiplier is absent or not a number.
C12_MultiplierPriority ==
  \A i \in 1..Len(groups) :
    LET fills == FillsOfKey(groups[i].key)
    IN /\ Len(fills) <= Len(groups[i].g.legs)
       /\ \A j \in 1..Len(fills) :
            /\ groups[i].g.legs[j].contract_multiplier
                 = PriorityMultiplier(fills[j])
            /\ groups[i].key[3] = PriorityMultiplier(fills[j])
            /\ groups[i].g.any_multiplier = Some(PriorityMultiplier(fills[j]))

\* C12 happens: the file holds a fill with symbol SPY and root /ES (50), a
\* fill whose raw multiplier is not a number (1) and a fill that keeps its
\* parsed multiplier (20).
C12_Witness ==
  /\ \E a \in 1..Len(rows) :
       /\ rows[a].symbol = "SPY" /\ rows[a].fut_root_symbol = "/ES"
       /\ \E i \in 1..Len(groups) :
            groups[i].key = KeyOf(rows[a]) /\ groups[i].key[3] = 50
  /\ \E b \in 1..Len(rows) :
       /\ rows[b].contract_multiplier = "1/50"
       /\ \E i \in 1..Len(groups) :
            groups[i].key = KeyOf(rows[b]) /\ groups[i].key[3] = 1
  /\ \E c \in 1..Len(rows) :
       /\ rows[c].contract_multiplier = "20.0"
       /\ \E i \in 1..Len(groups) :
            groups[i].key = KeyOf(rows[c]) /\ groups[i].key[3] = 20

\* Two rows agree on every key column but the multiplier.
AgreeButMultiplier(r1, r2) ==
  /\ r1.account = r2.account
  /\ r1.symbol = r2.symbol
  /\ Truthy(r1.is_option) = Truthy(r2.is_option)
  /\ r1.expiry_date = r2.expiry_date
  /\ r1.strike = r2.strike
  /\ r1.option_type = r2.option_type

\* The legs of both rows are in one group.
SameRoundTrip(r1, r2) ==
  \E i \in 1..Len(groups) :
    LET fills == FillsOfKey(groups[i].key)
    IN /\ \E j \in 1..Len(fills) : fills[j] = r1
       /\ \E j \in 1..Len(fills) : fills[j] = r2

\* The pairs of accepted fills of the file that agree on every key column
\* but the multiplier.
AgreeingPairs ==
  { p \in Range(rows) \X Range(rows) :
      Accepted(p[1]) /\ Accepted(p[2]) /\ AgreeButMultiplier(p[1], p[2]) }

\* The fills of each of the pairs are in one round trip, and no two round
\* trips of the ledger, one with each fill of a pair, show the same
\* account, symbol, is_option, expiry_date, strike and option_type.
NoSplitByMultiplier(pairs) ==
  /\ \A p \in pairs : SameRoundTrip(p[1], p[2])
  /\ \A i, j \in Emits :
       (/\ i # j
        /\ \E p \in pairs :
             /\ p[1] \in Range(FillsOfKey(groups[i].key))
             /\ p[2] \in Range(FillsOfKey(groups[j].key)))
         => \/ out[i].account # out[j].account
            \/ out[i].symbol # out[j].symbol
            \/ out[i].is_option # out[j].is_option
            \/ out[i].expiry_date # out[j].expiry_date
            \/ out[i].strike # out[j].strike
            \/ out[i].option_type # out[j].option_type

\* C13 as stated: the multiplier correction is applied before the identity
\* key is built: two fills that agree on account, symbol, is_option,
\* expiry_date, strike and option_type and both have futures root /ES, or
\* both have symbol SPX or SPY, land in the same round trip whatever their
\* raw multiplier strings, so the ledger never holds two round trips that
\* differ only by an uncorrected multiplier.
C13_CorrectedBeforeKey_Original ==
  NoSplitByMultiplier(
    { p \in AgreeingPairs :
        \/ (p[1].fut_root_symbol = "/ES" /\ p[2].fut_root_symbol = "/ES")
        \/ (p[1].symbol \in {"SPX", "SPY"} /\ p[2].symbol \in {"SPX", "SPY"}) })

\* C13 amended: the same, for two fills that both have futures root /ES,
\* or that both have symbol SPX or SPY and neither has futures root /ES.
C13_CorrectedBeforeKey ==
  NoSplitByMultiplier(
    { p \in AgreeingPairs :
        \/ (p[1].fut_root_symbol = "/ES" /\ p[2].fut_root_symbol = "/ES")
        \/ (/\ p[1].symbol \in {"SPX", "SPY"} /\ p[2].symbol \in {"SPX", "SPY"}
            /\ p[1].fut_root_symbol # "/ES"
            /\ p[2].fut_root_symbol # "/ES") })

\* C13 happens: the ledger holds a round trip of three /ES fills whose raw
\* multiplier strings all differ (Scenario 5).
C13_Witness ==
  /\ Emitted
  /\ \E i \in Emits :
       LET fills == FillsOfKey(groups[i].key)
       IN /\ Len(fills) = 3
          /\ Len(RealLegs(out[i])) = 3
          /\ out[i].contract_multiplier = 50
          /\ \A j \in 1..3 : fills[j].fut_root_symbol = "/ES"
          /\ \A j, k \in 1..3 :
               j # k => fills[j].contract_multiplier
                          # fills[k].contract_multiplier

(***************************************************************************)
(* C14 - C15                                                               *)
(***************************************************************************)

\* The stored VWAP v (micro) of a side with stored quantity qty, whose legs
\* sum to value (mils): absent exactly when qty is 0, else value / qty
\* rounded half-up to 6 digits.
VwapLaw(v, qty, value) ==
  /\ v = None <=> qty = 0
  /\ qty # 0 => IsHalfUp(Val(v), value * 1000, qty)

\* C14: for each side of every emitted round trip, the VWAP is absent
\* exactly when that side's stored quantity is zero, and otherwise equals
\* that side's summed price * qty (before the multiplier) divided by that
\* side's quantity, rounded half-up to 6 fractional digits.
C14_VwapPerSide ==
  \A i \in Emits :
    /\ VwapLaw(out[i].buy_vwap, out[i].qty_buy, SideValue(out[i].legs, BUY))
    /\ VwapLaw(out[i].sell_vwap, out[i].qty_sell,
               SideValue(out[i].legs, SELL))

\* C14 happens: a round trip whose BUY side averages to exactly half a
\* millionth (16.505 over 16) and whose SELL side is empty.
C14_Witness ==
  \E i \in Emits :
    /\ out[i].qty_buy > 0
    /\ 2 * ((SideValue(out[i].legs, BUY) * 1000) % out[i].qty_buy)
         = out[i].qty_buy
    /\ out[i].buy_vwap # None
    /\ out[i].qty_sell = 0
    /\ out[i].sell_vwap = None

\* dt is one of the timestamps of the legs and none of them is earlier.
IsEarliest(dt, legs) ==
  /\ \E j \in 1..Len(legs) : legs[j].dt = dt
  /\ \A j \in 1..Len(legs) : Utc(dt) <= Utc(legs[j].dt)

\* dt is one of the timestamps of the legs and none of them is later.
IsLatest(dt, legs) ==
  /\ \E j \in 1..Len(legs) : legs[j].dt = dt
  /\ \A j \in 1..Len(legs) : Utc(legs[j].dt) <= Utc(dt)

\* What C15 says of close_dt: the latest timestamp of all legs, that of the
\* synthetic leg only when it is later than every fill's; and open_dt is
\* not after close_dt.
CloseLaw(rt) ==
  /\ IsLatest(Val(rt.close_dt), rt.legs)
  /\ Utc(Val(rt.open_dt)) <= Utc(Val(rt.close_dt))
  /\ \A j \in 1..Len(rt.legs) :
       IsSyntheticLeg(rt.legs[j]) =>
         IF \A k \in 1..Len(RealLegs(rt)) :
              Utc(RealLegs(rt)[k].dt) < Utc(rt.legs[j].dt)
           THEN Val(rt.close_dt) = rt.legs[j].dt
           ELSE IsLatest(Val(rt.close_dt), RealLegs(rt))

\* C15 as stated: for every emitted round trip, open_dt is the minimum and
\* close_dt the maximum of the timestamps of its legs, the synthetic leg
\* included when present, so open_dt <= close_dt; the synthetic leg moves
\* close_dt only when its timestamp is later than the latest fill.
C15_OpenCloseDt_Original ==
  \A i \in Emits :
    /\ IsEarliest(Val(out[i].open_dt), out[i].legs)
    /\ CloseLaw(out[i])

\* C15 amended: open_dt is the minimum of the timestamps of the fills (the
\* synthetic leg not included), close_dt the maximum of the timestamps of
\* all legs, the synthetic leg included; open_dt <= close_dt; the synthetic
\* leg moves close_dt only when its timestamp is later than the latest fill.
C15_OpenCloseDt ==
  \A i \in Emits :
    /\ IsEarliest(Val(out[i].open_dt), RealLegs(out[i]))
    /\ CloseLaw(out[i])

\* C15 happens: a round trip closed synthetically with one fill before the
\* expiry day's end and one after it, so that the synthetic leg moves
\* neither open_dt nor close_dt.
C15_Witness ==
  \E i \in Emits :
    /\ out[i].synthetic_expiration
    /\ Utc(Val(out[i].open_dt)) < Utc(Last(out[i].legs).dt)
    /\ Utc(Last(out[i].legs).dt) < Utc(Val(out[i].close_dt))

(***************************************************************************)
(* C16 - C17                                                               *)
(***************************************************************************)

\* The row has a trade id, a side, a quantity, a symbol and a price.
HasCoreFields(row) ==
  /\ row.trade_id # ""
  /\ row.side \in {BUY, SELL}
  /\ row.qty_abs # None
  /\ row.symbol # ""
  /\ row.price # None

\* C16: a fill with unparseable core fields never reaches the aggregator's
\* groups: every row that is aggregated after the upstream re-parse,
\* normalize_row and filter steps has a trade id, a side in {BUY, SELL}, a
\* quantity, a symbol and a price, and no upstream step turns a row that
\* failed parsing into a row marked parse_ok = True.
C16_RejectedUpstream ==
  feed = "upstream" =>
    \A i \in 1..Len(rows) :
      (Accepted(rows[i]) /\ \E k \in 1..Len(groups) :
                              groups[k].key = KeyOf(rows[i]))
        => /\ HasCoreFields(rows[i])
           /\ \A p \in ParsedRows :
                normalize_row(p) = rows[i] => to_bool(p.parse_ok)

\* Number of legs, synthetic ones aside, in the round trips rts.
RECURSIVE RealLegCount(_)
RealLegCount(rts) ==
  IF rts = <<>> THEN 0
  ELSE Len(RealLegs(Head(rts))) + RealLegCount(Tail(rts))

\* C17: the aggregator has no failure path: for every sequence of rows
\* marked parse_ok, rows whose timestamp has no timezone, whose expiry_date
\* is malformed or whose numeric fields are empty included, the aggregation
\* pass runs to completion and emits a ledger in which every accepted row
\* is incorporated.
C17_NoFailurePath ==
  /\ pc # "crashed"
  /\ Emitted => RealLegCount(out) = Len(SelectSeq(rows, Accepted))

(***************************************************************************)
(* C18 - C20: the validator, on ledgers as written and on edited ones.     *)
(***************************************************************************)

\* The legs of rt the validator's predicate does not call synthetic.
AuditedLegs(rt) == SelectSeq(rt.legs, LAMBDA l : ~is_synth(l))

\* The stored fields of rt that differ from what its own non-synthetic
\* legs give, each named by the issue the validator has for it.
Mismatches(rt) ==
  LET legs == AuditedLegs(rt)
      buy_qty == SideQty(legs, BUY)
      sell_qty == SideQty(legs, SELL)
      buy_value == SideValue(legs, BUY)
      sell_value == SideValue(legs, SELL)
      off(stored, calc) ==
        stored # None /\ calc # None /\ Abs(Val(stored) - Val(calc)) > TOL
  IN { w \in {"qty_buy mismatch", "qty_sell mismatch",
               "gross_buy_value mismatch", "gross_sell_value mismatch",
               "buy_vwap mismatch", "sell_vwap mismatch",
               "realized_pnl_cash mismatch"} :
         CASE w = "qty_buy mismatch" -> rt.qty_buy # buy_qty
           [] w = "qty_sell mismatch" -> rt.qty_sell # sell_qty
           [] w = "gross_buy_value mismatch" -> rt.gross_buy_value # buy_value
           [] w = "gross_sell_value mismatch" ->
                rt.gross_sell_value # sell_value
           [] w = "buy_vwap mismatch" ->
                off(rt.buy_vwap, vwap(buy_qty, buy_value))
           [] w = "sell_vwap mismatch" ->
                off(rt.sell_vwap, vwap(sell_qty, sell_value))
           [] w = "realized_pnl_cash mismatch" ->
                Abs(rt.realized_pnl_cash * 10
                      - (sell_value - buy_value) * rt.contract_multiplier) > 10 }

\* The validator listed the issue `what` for round trip rt.
Reported(rt, what) ==
  \E k \in 1..Len(Val(report).issues) :
    Val(report).issues[k] = Issue(rt, what)

\* C18: the validator evaluates every check on every round trip of the
\* ledger and does not stop at the first failure: for each round trip whose
\* stored qty_buy, qty_sell, gross value, VWAP or realized_pnl_cash differs
\* from the value recomputed from its own non-synthetic legs, an issue with
\* that round trip's id is listed, wherever the round trip is in the ledger.
C18_EveryMismatchReported ==
  report # None =>
    \A i \in 1..Len(Val(ledger)) :
      \A w \in Mismatches(Val(ledger)[i]) : Reported(Val(ledger)[i], w)

\* C19: the validator is a pure audit: running it leaves every round trip
\* and every leg of the ledger unchanged, whether or not it finds
\* mismatches; a mismatch is reported, never corrected.
C19_PureAudit ==
  [][ (pc = "written" /\ pc' = "validated")
        => /\ ledger' = ledger
           /\ out' = out
           /\ groups' = groups ]_vars

\* C19 happens: the validator ran on an edited ledger, listed an issue for
\* a stored field that differs from its legs, and the ledger is still the
\* edited one.
C19_Witness ==
  /\ report # None
  /\ Val(ledger) # out
  /\ \E i \in 1..Len(Val(ledger)) :
       \E w \in Mismatches(Val(ledger)[i]) : Reported(Val(ledger)[i], w)

\* BUY quantities minus SELL quantities over all legs of rt, the synthetic
\* ones included.
NetOfAllLegs(rt) == SideQty(rt.legs, BUY) - SideQty(rt.legs, SELL)

\* C20: for a round trip with synthetic_expiration = true the validator
\* computes the net quantity over all of its legs, the synthetic leg
\* included, and lists the net-not-flat issue if and only if that net is
\* not zero; synthetic legs are left out of the quantity, value, VWAP and
\* P&L recomputation only.
C20_NetFlatCheck ==
  report # None =>
    \A i \in 1..Len(Val(ledger)) :
      Val(ledger)[i].synthetic_expiration =>
        (NetOfAllLegs(Val(ledger)[i]) # 0
           <=> Reported(Val(ledger)[i],
                        "synthetic_expiration true but net_qty_after != 0"))

(***************************************************************************)
(* The subject parsers.                                                    *)
(*                                                                         *)
(* A subject is modelled as the sequence of its blank-separated tokens,    *)
(* each a record that keeps what the regular expressions look at: its      *)
(* kind, its letters' case and count, its sign and digits.  A search is    *)
(* the leftmost position at which the pattern's pieces sit on consecutive  *)
(* tokens, with \b, \s+ and the digit counts of the pattern decided on the *)
(* token's text.  Decimal numbers (price, mark) are kept in mils, a date   *)
(* as [y, m, d].                                                           *)
(***************************************************************************)

\* Largest weekly ordinal written in a subject, "(Wk0)" .. "(WkN)".
MaxWeek == 6

\* "#123"
HashTok(id) == [k |-> "hash", n |-> id]
\* A run of letters; `upper` when all of them are capitals.
WordTok(w, len, upper) == [k |-> "word", w |-> w, len |-> len, upper |-> upper]
\* "+2", "-2", "2", "100"
IntTok(sign, n) == [k |-> "int", sign |-> sign, n |-> n]
\* "1/50"
FracTok(num, den) == [k |-> "frac", num |-> num, den |-> den]
\* "/ESM24", "/EW2K24"
FutTok(w) == [k |-> "fut", w |-> w]
\* "(Wk2)", "(Thursday)", "(Monday)", "(Weeklys)"
ParenTok(w, n) == [k |-> "paren", w |-> w, n |-> n]
\* "@.12" and, glued to it, "MARK=520.79" (mark = None when nothing is glued)
AtTok(price, mark) == [k |-> "at", price |-> price, mark |-> mark]
\* "MARK=520.79" standing alone
MarkTok(mark) == [k |-> "mark", mark |-> mark]
\* "VOL=13.29%"
VolTok(v) == [k |-> "vol", v |-> v]
\* ","
CommaTok == [k |-> "comma"]
\* "*****0960": `stars` asterisks and then the code
AcctTok(stars, code) == [k |-> "acct", stars |-> stars, code |-> code]

W(w) == WordTok(w, 3, TRUE)

\* MONTHS
MONTHS ==
  [JAN |-> 1, FEB |-> 2, MAR |-> 3, APR |-> 4, MAY |-> 5, JUN |-> 6,
   JUL |-> 7, AUG |-> 8, SEP |-> 9, OCT |-> 10, NOV |-> 11, DEC |-> 12]

\* SIDE_MAP
SIDE_MAP == [BOT |-> BUY, BUY |-> BUY, SOLD |-> SELL, SELL |-> SELL]

IsLeap(y) == (y % 4 = 0 /\ y % 100 # 0) \/ y % 400 = 0

DaysInMonth(y, m) ==
  CASE m \in {1, 3, 5, 7, 8, 10, 12} -> 31
    [] m \in {4, 6, 9, 11} -> 30
    [] OTHER -> IF IsLeap(y) THEN 29 ELSE 28

\* datetime.date(y, m, d) raises ValueError unless the day exists.
DateExists(y, m, d) == m \in 1..12 /\ d >= 1 /\ d <= DaysInMonth(y, m)

\* date.weekday(): Monday = 0 .. Sunday = 6.
Weekday(y, m, d) ==
  LET t == <<0, 3, 2, 5, 0, 3, 5, 1, 4, 6, 2, 4>>
      yy == IF m < 3 THEN y - 1 ELSE y
      sunday0 == (yy + yy \div 4 - yy \div 100 + yy \div 400 + t[m] + d) % 7
  IN (sunday0 + 6) % 7

\* _nth_weekday: the n-th `weekday` of the month, or None.
nth_weekday(year, month, weekday, n) ==
  LET hits == { d \in 1..DaysInMonth(year, month) :
                  /\ Weekday(year, month, d) = weekday
                  /\ Cardinality({ e \in 1..d :
                                     Weekday(year, month, e) = weekday }) = n }
  IN IF hits = {} THEN None
     ELSE Some([y |-> year, m |-> month, d |-> CHOOSE d \in hits : TRUE])

\* _parse_weekly_expiry("MAY 24", "2", hint)
parse_weekly_expiry(mon, yy, wk, weekday_hint) ==
  IF mon \notin DOMAIN MONTHS THEN None
  ELSE nth_weekday(2000 + yy, MONTHS[mon],
                   IF weekday_hint = "THURSDAY" THEN 3 ELSE 4, wk)

Digits(n) == IF n < 10 THEN 1 ELSE IF n < 100 THEN 2 ELSE IF n < 1000 THEN 3 ELSE 4

Min(S) == CHOOSE x \in S : \A y \in S : x <= y

\* Digits at the end of a token that begin at a word boundary and are
\* followed by the blank: \b(\d+)\s
HasTrailingDigits(t) == t.k \in {"int", "frac", "hash"}
TrailingDigits(t) == IF t.k = "frac" THEN t.den ELSE t.n

\* A whole token of capitals, as \b[A-Z]{lo,hi}\s needs.
IsCapitals(t, lo, hi) ==
  t.k = "word" /\ t.upper /\ t.len >= lo /\ t.len <= hi

\* s = re.sub(r'\btIP\b\s*', '', s, flags=re.IGNORECASE)
StripTip(toks) ==
  SelectSeq(toks, LAMBDA t : ~(t.k = "word" /\ Upper(t.w) = "TIP"))

\* tos_trade_parser.parse_trade_subject ---------------------------------

\* `out` as first built: every field None, parse_ok False.
TosEmpty ==
  [parse_ok |-> FALSE, trade_id |-> None, side |-> None, qty_signed |-> None,
   qty_abs |-> None, symbol |-> None, contract_multiplier |-> None,
   expiry_date |-> None, strike |-> None, option_type |-> None,
   price |-> None, underlying_mark |-> None, impl_vol |-> None,
   account |-> None]

IsUnsigned(t) == t.k = "int" /\ t.sign = ""

\* r'#(\d+)'
TradeIdAt(s) == { i \in 1..Len(s) : s[i].k = "hash" }

\* r'\b(BOT|BUY|SOLD|SELL)\s+([+-]?\d+)\b'
SideQtyAt(s) ==
  { i \in 1..(Len(s) - 1) :
      /\ s[i].k = "word" /\ s[i].w \in DOMAIN SIDE_MAP
      /\ s[i + 1].k \in {"int", "frac"} }

\* int(qty_txt)
QtyVal(t) ==
  IF t.k = "frac" THEN t.num ELSE IF t.sign = "-" THEN 0 - t.n ELSE t.n

\* The side and quantity fields with the sign the token carries.
SideQtySigned(side, qty_val) ==
  [side |-> side, qty_abs |-> Abs(qty_val), qty_signed |-> qty_val]

\* lines 84-88: the sign comes from the side alone.
SideQty2(side, qty_val) ==
  LET qty_abs == Abs(qty_val)
  IN [side |-> side, qty_abs |-> qty_abs,
      qty_signed |-> IF side = BUY THEN qty_abs ELSE 0 - qty_abs]

\* r'\b([A-Z]{1,6}|/[A-Z]{1,3}[A-Z0-9]{0,4})\s+(\d+(?:/\d+)?)\b'
\* (the second alternative needs a word character before its "/", which a
\* token that begins with "/" does not have)
SymbolAt(s) ==
  { i \in 1..(Len(s) - 1) :
      /\ IsCapitals(s[i], 1, 6)
      /\ (IsUnsigned(s[i + 1]) \/ s[i + 1].k = "frac") }

\* r'\b([A-Z]{1,6})\s+(?:\d{1,2}\s+[A-Z]{3}\s+\d{2})\b'
SymbolBeforeExpiryAt(s) ==
  { i \in 1..(Len(s) - 3) :
      /\ IsCapitals(s[i], 1, 6)
      /\ IsUnsigned(s[i + 1]) /\ Digits(s[i + 1].n) <= 2
      /\ IsCapitals(s[i + 2], 3, 3)
      /\ IsUnsigned(s[i + 3]) /\ Digits(s[i + 3].n) = 2 }

\* r'\b(\d{1,2})\s+([A-Z]{3})\s+(\d{2})\b'
ExplicitDayAt(s) ==
  { i \in 1..(Len(s) - 2) :
      /\ HasTrailingDigits(s[i]) /\ Digits(TrailingDigits(s[i])) <= 2
      /\ IsCapitals(s[i + 1], 3, 3)
      /\ IsUnsigned(s[i + 2]) /\ Digits(s[i + 2].n) = 2 }

\* lines 104-112
ExplicitDay(s) ==
  IF ExplicitDayAt(s) = {} THEN None
  ELSE LET i == Min(ExplicitDayAt(s))
           d == TrailingDigits(s[i])
           mon == s[i + 1].w
           yy == s[i + 2].n
       IN IF mon \in DOMAIN MONTHS /\ DateExists(2000 + yy, MONTHS[mon], d)
            THEN Some([y |-> 2000 + yy, m |-> MONTHS[mon], d |-> d])
            ELSE None

IsWk(t) == t.k = "paren" /\ t.w \in {"Wk", "Wkly", "Weeklys"} /\ t.n \in 0..9
IsThursday(t) == t.k = "paren" /\ Upper(t.w) = "THURSDAY"

\* r'\b([A-Z]{3}\s+\d{2})\s+(?:\((Thursday)\)\s+)?\((?:Wk|Wkly|Weeklys)\s*(\d)\)'
WeeklyAt(s) ==
  { i \in 1..(Len(s) - 2) :
      /\ s[i].k = "word" /\ s[i].len = 3
      /\ IsUnsigned(s[i + 1]) /\ Digits(s[i + 1].n) = 2
      /\ \/ IsWk(s[i + 2])
         \/ /\ i + 3 <= Len(s)
            /\ IsThursday(s[i + 2])
            /\ IsWk(s[i + 3]) }

\* lines 115-121
WeeklyDay(s) ==
  IF WeeklyAt(s) = {} THEN None
  ELSE LET i == Min(WeeklyAt(s))
           hinted == IsThursday(s[i + 2])
           wk == IF hinted THEN s[i + 3].n ELSE s[i + 2].n
       IN parse_weekly_expiry(Upper(s[i].w), s[i + 1].n, wk,
                              IF hinted THEN "THURSDAY" ELSE "")

\* The weekly path alone, whatever day-like tokens precede the month.
ExpiryWeeklyOnly(s) == WeeklyDay(s)

\* lines 103-123: the explicit day first, the weekly ordinal if it gave
\* nothing.
Expiry(s) == IF ExplicitDay(s) # None THEN ExplicitDay(s) ELSE WeeklyDay(s)

\* r'\b(\d+(?:\.\d+)?)\s+(PUT|CALL)\b'
StrikeAt(s) ==
  { i \in 1..(Len(s) - 1) :
      /\ HasTrailingDigits(s[i])
      /\ s[i + 1].k = "word" /\ s[i + 1].w \in {"PUT", "CALL"} }

\* r'@\s*([0-9]+(?:\.[0-9]+)?|\.[0-9]+)(?=\s*[A-Z]|,|$)': the number must be
\* followed by a capital (glued or after blanks), by a comma glued to it,
\* or by the end of the string.
PriceAt(s) ==
  { i \in 1..Len(s) :
      /\ s[i].k = "at"
      /\ \/ s[i].mark # None
         \/ i = Len(s)
         \/ s[i + 1].k \in {"mark", "vol"}
         \/ s[i + 1].k = "word" /\ s[i + 1].upper }

\* r'[A-Z ]*MARK=([0-9]*\.?[0-9]+)\b'
MarkAt(s) ==
  { i \in 1..Len(s) :
      \/ s[i].k = "mark"
      \/ s[i].k = "at" /\ s[i].mark # None }

\* r'IMPL\s+VOL=\s*([0-9]+(?:\.[0-9]+)?)\s*%'
VolAt(s) ==
  { i \in 1..(Len(s) - 1) :
      s[i].k = "word" /\ s[i].w = "IMPL" /\ s[i + 1].k = "vol" }

\* r'ACCOUNT\s+([*0-9A-Z]+)'
AccountAt(s) ==
  { i \in 1..(Len(s) - 1) :
      s[i].k = "word" /\ s[i].w = "ACCOUNT" /\ s[i + 1].k = "acct" }

\* The account with its leading asterisks taken off.
AccountStripped(t) == [stars |-> 0, code |-> t.code]

\* out["account"] = m.group(1): the token as it stands.
AccountText(t) == [stars |-> t.stars, code |-> t.code]

\* Python's truth of a field of `out`: None, 0 and 0.0 are false.
Truth(field) == field # None /\ Val(field) # 0

\* core completeness that leaves the price out.
core_ok_without_price(o) ==
  /\ o.trade_id # None /\ o.side # None /\ Truth(o.qty_abs)
  /\ o.symbol # None /\ Truth(o.strike) /\ o.option_type # None

\* lines 152-155
core_ok(o) ==
  /\ o.trade_id # None /\ o.side # None /\ Truth(o.qty_abs)
  /\ o.symbol # None /\ Truth(o.strike) /\ o.option_type # None
  /\ Truth(o.price)

\* tos_trade_parser.parse_trade_subject
tos_parse(subj) ==
  LET s == StripTip(subj)
      o1 == [TosEmpty EXCEPT !.trade_id =
               IF TradeIdAt(s) = {} THEN None
               ELSE Some(s[Min(TradeIdAt(s))].n)]
  IN IF SideQtyAt(s) = {} THEN o1
     ELSE
       LET i == Min(SideQtyAt(s))
           sq == SideQty2(SIDE_MAP[s[i].w], QtyVal(s[i + 1]))
           o2 == [o1 EXCEPT !.side = Some(sq.side),
                            !.qty_abs = Some(sq.qty_abs),
                            !.qty_signed = Some(sq.qty_signed)]
           o3 == IF SymbolAt(s) # {}
                   THEN [o2 EXCEPT
                           !.symbol = Some(s[Min(SymbolAt(s))].w),
                           !.contract_multiplier =
                              Some(s[Min(SymbolAt(s)) + 1])]
                   ELSE IF SymbolBeforeExpiryAt(s) # {}
                     THEN [o2 EXCEPT !.symbol =
                             Some(s[Min(SymbolBeforeExpiryAt(s))].w)]
                     ELSE o2
           o4 == [o3 EXCEPT !.expiry_date = Expiry(s)]
           o5 == IF StrikeAt(s) = {} THEN o4
                 ELSE [o4 EXCEPT
                         !.strike = Some(TrailingDigits(s[Min(StrikeAt(s))])),
                         !.option_type = Some(s[Min(StrikeAt(s)) + 1].w)]
           o6 == IF PriceAt(s) = {} THEN o5
                 ELSE [o5 EXCEPT !.price = Some(s[Min(PriceAt(s))].price)]
           o7 == IF MarkAt(s) = {} THEN o6
                 ELSE [o6 EXCEPT !.underlying_mark = s[Min(MarkAt(s))].mark]
           o8 == IF VolAt(s) = {} THEN o7
                 ELSE [o7 EXCEPT !.impl_vol = Some(s[Min(VolAt(s)) + 1].v)]
           o9 == IF AccountAt(s) = {} THEN o8
                 ELSE [o8 EXCEPT !.account =
                         Some(AccountText(s[Min(AccountAt(s)) + 1]))]
       IN [o9 EXCEPT !.parse_ok = core_ok(o9)]

\* subject_parser.parse_trade_subject -----------------------------------

\* _empty(False)
SpEmpty ==
  [parsed |-> FALSE, parse_ok |-> FALSE, trade_id |-> None, side |-> None,
   qty |-> None, signed_qty |-> None, instrument |-> None,
   contract_code |-> None, option_date |-> None, strike |-> None,
   option_type |-> None, price |-> None, mark |-> None,
   implied_vol |-> None, account |-> None]

\* _normalize_side
normalize_side(side_raw) == IF side_raw = "BOT" THEN BUY ELSE SELL

\* _iso_date: the text is formatted, the day is not checked.
iso_date(day, mon, yy) ==
  IF mon \notin DOMAIN MONTHS THEN None
  ELSE Some([y |-> 2000 + yy, m |-> MONTHS[mon], d |-> day])

\* r'/[A-Z]{1,3}[FGHJKMNQUVXZ]\d{2}'
IsFutureCt(t) == t.k = "fut" /\ t.w \in {"/ESM24", "/NQM24", "/XXM24"}

\* g["future_ct"].lstrip("/")
LStripSlash(w) ==
  CASE w = "/ESM24" -> "ESM24"
    [] w = "/NQM24" -> "NQM24"
    [] w = "/XXM24" -> "XXM24"
    [] OTHER -> w

\* How many tokens from position i on are parenthesised.
RECURSIVE ParensFrom(_, _)
ParensFrom(s, i) ==
  IF i <= Len(s) /\ s[i].k = "paren" THEN 1 + ParensFrom(s, i + 1) ELSE 0

\* The common end of both patterns, from the "@" token at position a:
\* @price, MARK=mark glued or after blanks, IMPL VOL=iv%, the comma,
\* ACCOUNT and the account, which ends the string.
TailShape(s, a) ==
  /\ a <= Len(s) /\ s[a].k = "at"
  /\ LET m == IF s[a].mark = None THEN 1 ELSE 0
     IN /\ Len(s) = a + m + 5
        /\ (m = 1 => s[a + 1].k = "mark")
        /\ s[a + m + 1].k = "word" /\ s[a + m + 1].w = "IMPL"
        /\ s[a + m + 2].k = "vol"
        /\ s[a + m + 3].k = "comma"
        /\ s[a + m + 4].k = "word" /\ s[a + m + 4].w = "ACCOUNT"
        /\ s[a + m + 5].k = "acct"

\* The number of words between the trade id and the side.
NoiseBefore(s, k) ==
  /\ Len(s) >= k + 3
  /\ s[1].k = "hash"
  /\ \A j \in 2..(k + 1) : s[j].k = "word"
  /\ s[k + 2].k = "word" /\ s[k + 2].w \in {"BOT", "SOLD"}
  /\ s[k + 3].k = "int"

\* Position of the "@" token when EQUITY_RE matches with k noise words,
\* 0 when it does not.
EquityAt(s, k) ==
  IF ~NoiseBefore(s, k) THEN 0
  ELSE
    LET b == k + 3
        w == IF Len(s) > b + 2 /\ s[b + 3].k = "paren" /\ s[b + 3].w = "Weeklys"
               THEN 1 ELSE 0
        a == b + 8 + w
    IN IF /\ Len(s) >= a
          /\ s[b + 1].k = "word" /\ s[b + 1].upper
          /\ IsUnsigned(s[b + 2])
          /\ IsUnsigned(s[b + 3 + w]) /\ Digits(s[b + 3 + w].n) <= 2
          /\ IsCapitals(s[b + 4 + w], 3, 3)
          /\ IsUnsigned(s[b + 5 + w]) /\ Digits(s[b + 5 + w].n) = 2
          /\ IsUnsigned(s[b + 6 + w])
          /\ s[b + 7 + w].k = "word" /\ s[b + 7 + w].w \in {"PUT", "CALL"}
          /\ TailShape(s, a)
         THEN a ELSE 0

\* The same for FUT_OPT_RE.
FutOptAt(s, k) ==
  IF ~NoiseBefore(s, k) THEN 0
  ELSE
    LET b == k + 3
        p == ParensFrom(s, b + 5)
        a == b + 8 + p
    IN IF /\ Len(s) >= a
          /\ IsFutureCt(s[b + 1])
          /\ s[b + 2].k = "frac"
          /\ IsCapitals(s[b + 3], 3, 3)
          /\ IsUnsigned(s[b + 4]) /\ Digits(s[b + 4].n) = 2
          /\ s[b + 5 + p].k = "fut"
          /\ IsUnsigned(s[b + 6 + p])
          /\ s[b + 7 + p].k = "word" /\ s[b + 7 + p].w \in {"PUT", "CALL"}
          /\ TailShape(s, a)
         THEN a ELSE 0

\* The fields both branches fill alike, from the side at position b - 1
\* and the "@" token at position a.
SpCommon(s, b, a) ==
  LET side == normalize_side(s[b - 1].w)
      qty_abs == Abs(QtyVal(s[b]))
      m == IF s[a].mark = None THEN 1 ELSE 0
  IN [SpEmpty EXCEPT
        !.parsed = TRUE, !.parse_ok = TRUE,
        !.trade_id = Some(s[1].n),
        !.side = Some(side),
        !.qty = Some(qty_abs),
        !.signed_qty = Some(IF side = BUY THEN qty_abs ELSE 0 - qty_abs),
        !.strike = Some(s[a - 2].n),
        !.option_type = Some(s[a - 1].w),
        !.price = Some(s[a].price),
        !.mark = IF m = 1 THEN s[a + 1].mark ELSE s[a].mark,
        !.implied_vol = Some(s[a + m + 2].v),
        !.account = Some(AccountText(s[a + m + 5]))]

\* subject_parser.parse_trade_subject
sp_parse(s) ==
  LET eq == { k \in 0..Len(s) : EquityAt(s, k) > 0 }
      fu == { k \in 0..Len(s) : FutOptAt(s, k) > 0 }
  IN IF eq # {}
       THEN LET k == Min(eq)
                b == k + 3
                a == EquityAt(s, k)
            IN [SpCommon(s, b, a) EXCEPT
                  !.instrument = Some(s[b + 1].w),
                  !.contract_code = Some(s[b + 2]),
                  !.option_date = iso_date(s[a - 5].n, s[a - 4].w, s[a - 3].n)]
     ELSE IF fu # {}
       THEN LET k == Min(fu)
                b == k + 3
                a == FutOptAt(s, k)
            IN [SpCommon(s, b, a) EXCEPT
                  !.instrument = Some(LStripSlash(s[b + 1].w)),
                  !.contract_code = Some(s[b + 2])]
     ELSE SpEmpty

\* The subjects parsed ---------------------------------------------------

\* "MARK=520.79 IMPL VOL=13.29% , ACCOUNT <account>" after the price, and
\* the shorter endings.
Endings ==
  LET impl == <<WordTok("IMPL", 4, TRUE), VolTok(13290)>>
      accts == { <<CommaTok, WordTok("ACCOUNT", 7, TRUE), AcctTok(n, "0960")>> :
                   n \in {0, 5} }
  IN UNION { { <<AtTok(120, Some(520790))>> \o impl \o a,
               <<AtTok(0, Some(520790))>> \o impl \o a,
               <<MarkTok(Some(520790))>> \o impl \o a,
               <<AtTok(120, None)>> \o a } : a \in accts }
     \cup { <<AtTok(120, None)>> }

\* Equity and index option subjects such as
\* "#123 BOT +2 SPY 100 17 MAY 24 500 PUT @.12MARK=520.79 IMPL VOL=13.29% ,
\* ACCOUNT *****0960", with each piece present, altered or left out.
EquitySubjects ==
  { id \o noise \o side \o qty
       \o <<WordTok("SPY", 3, TRUE), IntTok("", 100)>> \o day
       \o strike \o type \o ending :
      id \in {<<>>, <<HashTok(123)>>},
      noise \in {<<>>, <<WordTok("tIP", 3, FALSE)>>},
      side \in {<<>>, <<WordTok("BOT", 3, TRUE)>>, <<WordTok("SOLD", 4, TRUE)>>,
                <<WordTok("BUY", 3, TRUE)>>},
      qty \in {<<>>} \cup { <<IntTok(sg, n)>> : sg \in {"+", "-", ""},
                                                 n \in {0, 2} },
      day \in { <<IntTok("", 17), W("MAY"), IntTok("", 24)>>,
                <<IntTok("", 31), W("FEB"), IntTok("", 24)>> },
      strike \in {<<>>, <<IntTok("", 500)>>},
      type \in {<<>>, <<WordTok("PUT", 3, TRUE)>>},
      ending \in Endings }

\* Futures option subjects such as
\* "#125 SOLD -1 /ESM24 1/50 MAY 24 (Wk2) /EW2K24 5300 CALL @10.25MARK=5310.5
\* IMPL VOL=13.29% , ACCOUNT *****0960".
FuturesSubjects ==
  { <<HashTok(125)>> \o sq
       \o <<FutTok("/ESM24"), FracTok(1, den), W(mon), IntTok("", 24)>>
       \o hint \o <<ParenTok("Wk", n)>>
       \o <<FutTok("/EW2K24"), IntTok("", 5300), WordTok("CALL", 4, TRUE),
            AtTok(10250, Some(5310500)), WordTok("IMPL", 4, TRUE),
            VolTok(13290), CommaTok, WordTok("ACCOUNT", 7, TRUE),
            AcctTok(5, "0960")>> :
      sq \in { <<WordTok("SOLD", 4, TRUE), IntTok("-", 1)>>,
               <<WordTok("BOT", 3, TRUE), IntTok("+", 1)>> },
      den \in {10, 20, 50},
      mon \in {"MAY", "FEB"},
      hint \in {<<>>, <<ParenTok("Thursday", 0)>>, <<ParenTok("Monday", 0)>>},
      n \in 0..MaxWeek }

\* "Your statement is ready"
JunkSubject ==
  <<WordTok("Your", 4, FALSE), WordTok("statement", 9, FALSE),
    WordTok("is", 2, FALSE), WordTok("ready", 5, FALSE)>>

Subjects == EquitySubjects \cup FuturesSubjects \cup {JunkSubject}

InitParser ==
  /\ subject \in Subjects
  /\ tos_out = None
  /\ sp_out = None
  /\ EngineIdle /\ DownloaderIdle /\ ExporterIdle /\ IngestIdle /\ BackoffIdle

\* tos_trade_parser.parse_trade_subject(subject)
ParseTos ==
  /\ tos_out = None
  /\ tos_out' = Some(tos_parse(subject))
  /\ UNCHANGED <<subject, sp_out>>
  /\ UNCHANGED <<engineVars, downloaderVars, exporterVars, ingestVars,
                 backoffVars>>

\* subject_parser.parse_trade_subject(subject)
ParseSp ==
  /\ sp_out = None
  /\ sp_out' = Some(sp_parse(subject))
  /\ UNCHANGED <<subject, tos_out>>
  /\ UNCHANGED <<engineVars, downloaderVars, exporterVars, ingestVars,
                 backoffVars>>

NextParser ==
  \/ ParseTos
  \/ ParseSp

SpecParser == InitParser /\ [][NextParser]_vars

(***************************************************************************)
(* C21 - C24, C27: the parsers.                                            *)
(***************************************************************************)

FirstMissing(o) ==
  CASE o.trade_id = None -> "trade_id"
    [] o.side = None -> "side"
    [] ~Truth(o.qty_abs) -> "qty"
    [] o.symbol = None -> "symbol"
    [] ~Truth(o.strike) -> "strike"
    [] o.option_type = None -> "option_type"
    [] OTHER -> "price"

\* C22: every record with parse_ok = false carries a fail_reason; it names
\* the first missing or invalid core field in the order trade_id, side,
\* qty, symbol, strike, option_type, price, or says "no pattern matched"
\* when nothing of the format was recognised.
C22_FailReason ==
  (tos_out # None /\ ~Val(tos_out).parse_ok) =>
    /\ "fail_reason" \in DOMAIN Val(tos_out)
    /\ Val(tos_out).fail_reason \in
         {FirstMissing(Val(tos_out)), "no pattern matched"}

\* The quantity token the side-and-quantity pattern found.
QtyToken == StripTip(subject)[Min(SideQtyAt(StripTip(subject))) + 1]

\* C23: when the quantity token carries an explicit + or -, qty_signed has
\* that sign whatever the side token says; when it carries none the sign
\* comes from the side (BUY positive, SELL negative); qty_abs is always the
\* absolute value of qty_signed.
C23_QuantitySign ==
  /\ (tos_out # None /\ Val(tos_out).side # None) =>
       LET o == Val(tos_out)
           want == IF QtyToken.k = "int" /\ QtyToken.sign # ""
                     THEN SideQtySigned(Val(o.side), QtyVal(QtyToken))
                     ELSE SideQty2(Val(o.side), QtyVal(QtyToken))
       IN /\ Val(o.qty_signed) = want.qty_signed
          /\ Val(o.qty_abs) = Abs(Val(o.qty_signed))
  /\ (sp_out # None /\ Val(sp_out).parse_ok) =>
       LET o == Val(sp_out)
           want == IF QtyToken.sign # ""
                     THEN SideQtySigned(Val(o.side), QtyVal(QtyToken))
                     ELSE SideQty2(Val(o.side), QtyVal(QtyToken))
       IN /\ Val(o.signed_qty) = want.qty_signed
          /\ Val(o.qty) = Abs(Val(o.signed_qty))

\* C24: the account the parser stores never begins with a mask character:
\* the leading asterisks of the account token are stripped.
C24_AccountMaskStripped ==
  /\ (tos_out # None /\ Val(tos_out).account # None) =>
       Val(Val(tos_out).account) =
         AccountStripped(Val(Val(tos_out).account))
  /\ (sp_out # None /\ Val(sp_out).account # None) =>
       Val(Val(sp_out).account) =
         AccountStripped(Val(Val(sp_out).account))

\* The subject is a futures option that gives month and year and a weekly
\* ordinal, with its fraction multiplier right before the month and no
\* expiry day.
IsWeeklyFuture(s) ==
  /\ WeeklyAt(s) # {}
  /\ Min(WeeklyAt(s)) > 1
  /\ s[Min(WeeklyAt(s)) - 1].k = "frac"

\* C27: for every futures-option subject with month, year and a weekly
\* ordinal WkN and no explicit expiry day, whatever its fraction
\* multiplier, the parsed expiry_date is the N-th Friday of that month, the
\* N-th Thursday when the (Thursday) hint is present, and is absent when
\* the month has no such day.
C27_WeeklyExpiry ==
  (tos_out # None /\ IsWeeklyFuture(StripTip(subject))) =>
    Val(tos_out).expiry_date = ExpiryWeeklyOnly(StripTip(subject))

(***************************************************************************)
(* C25: the aggregator and the clock.                                      *)
(***************************************************************************)

\* The list `out` of a whole run over the rows rs when the clock read at
\* the end of the file says `now`.
LedgerOfRun(rs, now) ==
  LET gs == ConsumeAll(<<>>, rs)
  IN [i \in 1..Len(gs) |-> Finalized(gs[i], i, now)]

\* C25: the aggregator is deterministic in its inputs: the instant used for
\* synthetic expiration is supplied with them and no run reads the wall
\* clock, so a run over the same fills writes the same ledger whatever the
\* clock says when it runs.
C25_DeterministicInInputs ==
  pc = "written" =>
    \A now \in Nows(feed) : LedgerOfRun(rows, now) = Val(ledger)

(***************************************************************************)
(* gmail_attachements_downloader.main, run again and again on one mailbox. *)
(* A run ends at the end of the listing, on a KeyboardInterrupt, or on an  *)
(* error a Gmail call raises after its retries; in all three the `finally` *)
(* clause flushes the manifest.                                            *)
(***************************************************************************)

\* Runs of the downloader explored.
MaxRuns == 3

\* What list_message_ids yields; the second listing of m1 is a page that
\* repeats an id.
Mailbox == <<"m1", "m2", "m1">>

\* The leaf parts of a message: "file" has a filename, an attachmentId and
\* bytes; "body" has no filename; "empty" has a filename and an
\* attachmentId whose data is empty.
Parts(msg_id) ==
  IF msg_id = "m1" THEN <<"body", "file", "file">>
  ELSE <<"file", "empty">>

\* Lines 227-252: a run starts; processed is read from the resume file and
\* the manifest is opened for appending.
StartRun ==
  /\ dl_pc \in {"idle", "stopped"}
  /\ dl_run < MaxRuns
  /\ dl_run' = dl_run + 1
  /\ dl_processed' = Range(resume_file)
  /\ dl_pos' = 1
  /\ dl_part' = 1
  /\ dl_pc' = "loop"
  /\ UNCHANGED <<resume_file, manifest, manifest_fp, out_dir, dl_fetches>>
  /\ UNCHANGED <<engineVars, parserVars, exporterVars, ingestVars, backoffVars>>

\* Lines 259-260: `if msg_id in processed: continue`
SkipProcessed ==
  /\ dl_pc = "loop"
  /\ dl_pos <= Len(Mailbox)
  /\ Mailbox[dl_pos] \in dl_processed
  /\ dl_pos' = dl_pos + 1
  /\ UNCHANGED <<resume_file, manifest, manifest_fp, out_dir, dl_processed,
                 dl_part, dl_fetches, dl_run, dl_pc>>
  /\ UNCHANGED <<engineVars, parserVars, exporterVars, ingestVars, backoffVars>>

\* Line 262: fetch_message returns.
FetchMessage ==
  /\ dl_pc = "loop"
  /\ dl_pos <= Len(Mailbox)
  /\ Mailbox[dl_pos] \notin dl_processed
  /\ dl_fetches' = Append(dl_fetches, Mailbox[dl_pos])
  /\ dl_part' = 1
  /\ dl_pc' = "parts"
  /\ UNCHANGED <<resume_file, manifest, manifest_fp, out_dir, dl_processed,
                 dl_pos, dl_run>>
  /\ UNCHANGED <<engineVars, parserVars, exporterVars, ingestVars, backoffVars>>

\* Lines 284-305: a part that is not saved: no filename, or no data.
SkipPart ==
  /\ dl_pc = "parts"
  /\ dl_part <= Len(Parts(Mailbox[dl_pos]))
  /\ Parts(Mailbox[dl_pos])[dl_part] # "file"
  /\ dl_part' = dl_part + 1
  /\ UNCHANGED <<resume_file, manifest, manifest_fp, out_dir, dl_processed,
                 dl_pos, dl_fetches, dl_run, dl_pc>>
  /\ UNCHANGED <<engineVars, parserVars, exporterVars, ingestVars, backoffVars>>

\* Lines 297-333: the attachment is fetched and save_bytes writes it.
SaveAttachment ==
  /\ dl_pc = "parts"
  /\ dl_part <= Len(Parts(Mailbox[dl_pos]))
  /\ Parts(Mailbox[dl_pos])[dl_part] = "file"
  /\ out_dir' = Append(out_dir, [msg |-> Mailbox[dl_pos], att |-> dl_part])
  /\ dl_pc' = "log"
  /\ UNCHANGED <<resume_file, manifest, manifest_fp, dl_processed, dl_pos,
                 dl_part, dl_fetches, dl_run>>
  /\ UNCHANGED <<engineVars, parserVars, exporterVars, ingestVars, backoffVars>>

\* Lines 335-346: manifest_csv.writerow
LogManifest ==
  /\ dl_pc = "log"
  /\ manifest_fp' = Append(manifest_fp,
                           [msg |-> Mailbox[dl_pos], att |-> dl_part])
  /\ dl_part' = dl_part + 1
  /\ dl_pc' = "parts"
  /\ UNCHANGED <<resume_file, manifest, out_dir, dl_processed, dl_pos,
                 dl_fetches, dl_run>>
  /\ UNCHANGED <<engineVars, parserVars, exporterVars, ingestVars, backoffVars>>

\* The message is marked while its parts are still being walked.
MarkProcessedEarly ==
  /\ dl_pc = "parts"
  /\ dl_processed' = dl_processed \cup {Mailbox[dl_pos]}
  /\ resume_file' = Append(resume_file, Mailbox[dl_pos])
  /\ dl_pos' = dl_pos + 1
  /\ dl_pc' = "loop"
  /\ UNCHANGED <<manifest, manifest_fp, out_dir, dl_part, dl_fetches, dl_run>>
  /\ UNCHANGED <<engineVars, parserVars, exporterVars, ingestVars, backoffVars>>

\* Lines 348-351: after the last part, processed.add(msg_id) and the line
\* appended to the resume file.
MarkProcessed ==
  /\ dl_pc = "parts"
  /\ dl_part > Len(Parts(Mailbox[dl_pos]))
  /\ dl_processed' = dl_processed \cup {Mailbox[dl_pos]}
  /\ resume_file' = Append(resume_file, Mailbox[dl_pos])
  /\ dl_pos' = dl_pos + 1
  /\ dl_pc' = "loop"
  /\ UNCHANGED <<manifest, manifest_fp, out_dir, dl_part, dl_fetches, dl_run>>
  /\ UNCHANGED <<engineVars, parserVars, exporterVars, ingestVars, backoffVars>>

\* Lines 355-359: the listing is exhausted, or KeyboardInterrupt or an
\* error of a Gmail call ends the loop wherever it is; `finally` flushes
\* and closes the manifest.
StopRun ==
  /\ dl_pc \in {"loop", "parts", "log"}
  /\ manifest' = manifest \o manifest_fp
  /\ manifest_fp' = <<>>
  /\ dl_pc' = "stopped"
  /\ UNCHANGED <<resume_file, out_dir, dl_processed, dl_pos, dl_part,
                 dl_fetches, dl_run>>
  /\ UNCHANGED <<engineVars, parserVars, exporterVars, ingestVars, backoffVars>>

InitDownloader ==
  /\ DownloaderIdle
  /\ EngineIdle /\ ParserIdle /\ ExporterIdle /\ IngestIdle /\ BackoffIdle

NextDownloader ==
  \/ StartRun
  \/ SkipProcessed
  \/ FetchMessage
  \/ SkipPart
  \/ SaveAttachment
  \/ LogManifest
  \/ MarkProcessed
  \/ StopRun

SpecDownloader == InitDownloader /\ [][NextDownloader]_vars

(***************************************************************************)
(* C26: re-running the downloader.                                         *)
(***************************************************************************)

\* The attachments of msg_id the download loop saves.
FilesOf(msg_id) ==
  { [msg |-> msg_id, att |-> a] :
      a \in { i \in 1..Len(Parts(msg_id)) : Parts(msg_id)[i] = "file" } }

\* Every message of the resume file has all its attachments saved and
\* written to the manifest, and is in the file once.
ResumeFileSound ==
  /\ \A i \in 1..Len(resume_file) :
       /\ FilesOf(resume_file[i]) \subseteq Range(out_dir)
       /\ FilesOf(resume_file[i]) \subseteq Range(manifest \o manifest_fp)
       /\ dl_pc = "stopped" => FilesOf(resume_file[i]) \subseteq Range(manifest)
  /\ \A i, j \in 1..Len(resume_file) :
       resume_file[i] = resume_file[j] => i = j

\* A step that fetches a message or saves one of its attachments does so
\* for a message that is not in the resume file.
NoRefetch ==
  /\ dl_fetches' # dl_fetches => Last(dl_fetches') \notin Range(resume_file)
  /\ out_dir' # out_dir => Last(out_dir').msg \notin Range(resume_file)

DbBatchSize == 2

\* The values of --limit explored (0 is no limit).
MaxLimit == 2

\* What list_message_ids yields.
ExMailbox == <<"m1", "m2", "m3">>

\* Line 198: `if args.limit and count_msgs >= args.limit`
LimitReached == ex_limit # 0 /\ count_msgs >= ex_limit

\* Lines 175-194: a run starts; processed is read from the resume file.
ExStartRun ==
  /\ ex_pc \in {"idle", "stopped"}
  /\ ex_run < MaxRuns
  /\ ex_run' = ex_run + 1
  /\ ex_limit' \in 0..MaxLimit
  /\ ex_processed' = Range(ex_resume)
  /\ db_buffer' = <<>>
  /\ count_msgs' = 0
  /\ ex_pos' = 1
  /\ ex_pc' = "loop"
  /\ UNCHANGED <<ex_resume, ex_csv, db_table>>
  /\ UNCHANGED <<engineVars, parserVars, downloaderVars, ingestVars, backoffVars>>

\* Lines 197-199 and the end of the listing: the loop is left.
ExLeaveLoop ==
  /\ ex_pc = "loop"
  /\ ex_pos > Len(ExMailbox) \/ LimitReached
  /\ ex_pc' = "flush"
  /\ UNCHANGED <<ex_resume, ex_csv, db_buffer, db_table, ex_processed, ex_pos,
                 count_msgs, ex_limit, ex_run>>
  /\ UNCHANGED <<engineVars, parserVars, downloaderVars, ingestVars, backoffVars>>

\* Lines 200-201: `if msg_id in processed: continue`
ExSkipProcessed ==
  /\ ex_pc = "loop"
  /\ ex_pos <= Len(ExMailbox)
  /\ ~LimitReached
  /\ ExMailbox[ex_pos] \in ex_processed
  /\ ex_pos' = ex_pos + 1
  /\ UNCHANGED <<ex_resume, ex_csv, db_buffer, db_table, ex_processed,
                 count_msgs, ex_limit, ex_run, ex_pc>>
  /\ UNCHANGED <<engineVars, parserVars, downloaderVars, ingestVars, backoffVars>>

\* Lines 203-218: the headers are fetched and parsed, the CSV row is
\* written and flushed.
ExWriteRow ==
  /\ ex_pc = "loop"
  /\ ex_pos <= Len(ExMailbox)
  /\ ~LimitReached
  /\ ExMailbox[ex_pos] \notin ex_processed
  /\ ex_csv' = Append(ex_csv, ExMailbox[ex_pos])
  /\ ex_pc' = "row"
  /\ UNCHANGED <<ex_resume, db_buffer, db_table, ex_processed, ex_pos,
                 count_msgs, ex_limit, ex_run>>
  /\ UNCHANGED <<engineVars, parserVars, downloaderVars, ingestVars, backoffVars>>

\* Lines 221-225: the row joins db_buffer; a full buffer is upserted and
\* cleared.
ExBufferRow ==
  /\ ex_pc = "row"
  /\ LET buf == Append(db_buffer, ExMailbox[ex_pos])
     IN IF Len(buf) >= DbBatchSize
        THEN /\ db_table' = db_table \cup Range(buf)
             /\ db_buffer' = <<>>
        ELSE /\ db_buffer' = buf
             /\ db_table' = db_table
  /\ ex_pc' = "mark"
  /\ UNCHANGED <<ex_resume, ex_csv, ex_processed, ex_pos, count_msgs,
                 ex_limit, ex_run>>
  /\ UNCHANGED <<engineVars, parserVars, downloaderVars, ingestVars, backoffVars>>

\* Lines 223-224 and db_writer.py 18-20: upsert_rows of the full buffer
\* raises; the error leaves the loop and main.
ExUpsertFails ==
  /\ ex_pc = "row"
  /\ Len(db_buffer) + 1 >= DbBatchSize
  /\ db_buffer' = Append(db_buffer, ExMailbox[ex_pos])
  /\ ex_pc' = "stopped"
  /\ UNCHANGED <<ex_resume, ex_csv, db_table, ex_processed, ex_pos,
                 count_msgs, ex_limit, ex_run>>
  /\ UNCHANGED <<engineVars, parserVars, downloaderVars, ingestVars, backoffVars>>

\* Lines 227-231: the id is appended to the resume file and to processed.
ExMarkProcessed ==
  /\ ex_pc = "mark"
  /\ ex_resume' = Append(ex_resume, ExMailbox[ex_pos])
  /\ ex_processed' = ex_processed \cup {ExMailbox[ex_pos]}
  /\ count_msgs' = count_msgs + 1
  /\ ex_pos' = ex_pos + 1
  /\ ex_pc' = "loop"
  /\ UNCHANGED <<ex_csv, db_buffer, db_table, ex_limit, ex_run>>
  /\ UNCHANGED <<engineVars, parserVars, downloaderVars, ingestVars, backoffVars>>

\* Lines 235-238: "flush remainder".
ExFlushRemainder ==
  /\ ex_pc = "flush"
  /\ db_table' = db_table \cup Range(db_buffer)
  /\ db_buffer' = <<>>
  /\ ex_pc' = "stopped"
  /\ UNCHANGED <<ex_resume, ex_csv, ex_processed, ex_pos, count_msgs,
                 ex_limit, ex_run>>
  /\ UNCHANGED <<engineVars, parserVars, downloaderVars, ingestVars, backoffVars>>

\* Lines 236-237 and db_writer.py 18-20: upsert_rows of the remainder
\* raises.
ExFlushFails ==
  /\ ex_pc = "flush"
  /\ db_buffer # <<>>
  /\ ex_pc' = "stopped"
  /\ UNCHANGED <<ex_resume, ex_csv, db_buffer, db_table, ex_processed, ex_pos,
                 count_msgs, ex_limit, ex_run>>
  /\ UNCHANGED <<engineVars, parserVars, downloaderVars, ingestVars, backoffVars>>

\* Lines 240-243: KeyboardInterrupt anywhere inside `try`; the handler
\* prints and `finally` closes the CSV file.
ExInterrupt ==
  /\ ex_pc \in {"loop", "row", "mark", "flush"}
  /\ ex_pc' = "stopped"
  /\ UNCHANGED <<ex_resume, ex_csv, db_buffer, db_table, ex_processed, ex_pos,
                 count_msgs, ex_limit, ex_run>>
  /\ UNCHANGED <<engineVars, parserVars, downloaderVars, ingestVars, backoffVars>>

InitExporter ==
  /\ ExporterIdle
  /\ EngineIdle /\ ParserIdle /\ DownloaderIdle /\ IngestIdle /\ BackoffIdle

NextExporter ==
  \/ ExStartRun
  \/ ExLeaveLoop
  \/ ExSkipProcessed
  \/ ExWriteRow
  \/ ExBufferRow
  \/ ExUpsertFails
  \/ ExMarkProcessed
  \/ ExFlushRemainder
  \/ ExFlushFails
  \/ ExInterrupt

SpecExporter == InitExporter /\ [][NextExporter]_vars

\* C28: whenever the exporter run with --supabase has stopped (normal end,
\* --limit, an upsert error or KeyboardInterrupt), every message id in the
\* resume file has had its row passed to a successful upsert_rows.
C28_ResumeImpliesUpserted ==
  ex_pc = "stopped" => Range(ex_resume) \subseteq db_table

\* The same at the stops that reach "flush remainder" and whose upsert
\* succeeds: a buffer emptied means every recorded id is in the table.
FlushedRunIsUpserted ==
  (ex_pc = "stopped" /\ db_buffer = <<>> /\ ex_run = 1)
    => Range(ex_resume) \subseteq db_table

(***************************************************************************)
(* db_trade_insert.ingest_csv: the rows of one CSV file are upserted in    *)
(* one session; the session's transaction stays open from one commit or    *)
(* rollback to the next (db/uow.py: "No implicit commit/rollback").        *)
(***************************************************************************)

\* BATCH_SIZE of line 141, scaled down from 1000.
BATCH_SIZE == 2

\* Rows in the CSV file.
MaxRows == 4

\* A row is "ok", or "bad": one of the `raise ValueError` of lines 196-270
\* (missing account, symbol, side, quantity, price or date).
CsvFiles ==
  UNION { [1..n -> {"ok", "bad"}] : n \in 1..MaxRows }

\* Lines 189-295: the row passes the checks and trades.upsert runs in the
\* open transaction; line 297 sends every BATCH_SIZE-th row to the commit.
IngestRow ==
  /\ ing_pc = "rows"
  /\ total < Len(csv_rows)
  /\ csv_rows[total + 1] = "ok"
  /\ total' = total + 1
  /\ in_txn' = in_txn \cup {total + 1}
  /\ ing_pc' = IF (total + 1) % BATCH_SIZE = 0 THEN "batch" ELSE "rows"
  /\ UNCHANGED <<csv_rows, db_trades, error_rows>>
  /\ UNCHANGED <<engineVars, parserVars, downloaderVars, exporterVars, backoffVars>>

\* Lines 189-196 and 309-320: the row raises; it is appended to
\* error_rows and session.rollback() ends the open transaction.
IngestRowFails ==
  /\ ing_pc = "rows"
  /\ total < Len(csv_rows)
  /\ csv_rows[total + 1] = "bad"
  /\ total' = total + 1
  /\ error_rows' = Append(error_rows, total + 1)
  /\ in_txn' = {}
  /\ UNCHANGED <<csv_rows, db_trades, ing_pc>>
  /\ UNCHANGED <<engineVars, parserVars, downloaderVars, exporterVars, backoffVars>>

\* Lines 297-301: flush and commit of the batch.
CommitBatch ==
  /\ ing_pc = "batch"
  /\ db_trades' = db_trades \cup in_txn
  /\ in_txn' = {}
  /\ ing_pc' = "rows"
  /\ UNCHANGED <<csv_rows, total, error_rows>>
  /\ UNCHANGED <<engineVars, parserVars, downloaderVars, exporterVars, backoffVars>>

\* Lines 302-307: the batch commit raises and the session is rolled back.
CommitBatchFails ==
  /\ ing_pc = "batch"
  /\ in_txn' = {}
  /\ ing_pc' = "rows"
  /\ UNCHANGED <<csv_rows, total, db_trades, error_rows>>
  /\ UNCHANGED <<engineVars, parserVars, downloaderVars, exporterVars, backoffVars>>

\* Line 189: the reader is exhausted.
EndOfRows ==
  /\ ing_pc = "rows"
  /\ total = Len(csv_rows)
  /\ ing_pc' = "final"
  /\ UNCHANGED <<csv_rows, total, in_txn, db_trades, error_rows>>
  /\ UNCHANGED <<engineVars, parserVars, downloaderVars, exporterVars, backoffVars>>

\* Lines 322-325: the final commit.
FinalCommit ==
  /\ ing_pc = "final"
  /\ db_trades' = db_trades \cup in_txn
  /\ in_txn' = {}
  /\ ing_pc' = "done"
  /\ UNCHANGED <<csv_rows, total, error_rows>>
  /\ UNCHANGED <<engineVars, parserVars, downloaderVars, exporterVars, backoffVars>>

\* Lines 326-331: the final commit raises and the session is rolled back.
FinalCommitFails ==
  /\ ing_pc = "final"
  /\ in_txn' = {}
  /\ ing_pc' = "done"
  /\ UNCHANGED <<csv_rows, total, db_trades, error_rows>>
  /\ UNCHANGED <<engineVars, parserVars, downloaderVars, exporterVars, backoffVars>>

InitIngest ==
  /\ csv_rows \in CsvFiles
  /\ total = 0
  /\ in_txn = {}
  /\ db_trades = {}
  /\ error_rows = <<>>
  /\ ing_pc = "rows"
  /\ EngineIdle /\ ParserIdle /\ DownloaderIdle /\ ExporterIdle /\ BackoffIdle

NextIngest ==
  \/ IngestRow
  \/ IngestRowFails
  \/ CommitBatch
  \/ CommitBatchFails
  \/ EndOfRows
  \/ FinalCommit
  \/ FinalCommitFails

SpecIngest == InitIngest /\ [][NextIngest]_vars

\* C29: in ingest_csv a failing row affects only itself: the step that
\* records a row in error_rows loses no earlier row of the same
\* uncommitted batch; what was upserted and not yet committed is still
\* upserted or committed after the step.
C29_FailingRowAffectsOnlyItself ==
  [][Len(error_rows') > Len(error_rows)
       => in_txn \subseteq (in_txn' \cup db_trades')]_vars

(***************************************************************************)
(* with_backoff, the same function in gmail_subject_exporter.py and in     *)
(* gmail_attachements_downloader.py.  No caller passes max_tries; the      *)
(* default is 12, scaled down here.                                        *)
(***************************************************************************)

\* The largest max_tries explored.
MaxTries == 4

\* What an invocation of callable_fn does: it returns, or it raises an
\* HttpError that is_rate_limited_error accepts, another HttpError, a
\* TimeoutError / OSError / ConnectionError, or any other exception.
Outcomes == {"ok", "rate_limited", "http_other", "network", "other"}

is_rate_limited_error(o) == o = "rate_limited"

\* Line 38: `return callable_fn(*args, **kwargs)` returns.
CallReturns ==
  /\ bo_pc = "call"
  /\ calls' = calls + 1
  /\ outcomes' = Append(outcomes, "ok")
  /\ bo_result' = Some([how |-> "return", call |-> calls + 1])
  /\ bo_pc' = "returned"
  /\ UNCHANGED <<max_tries, attempt>>
  /\ UNCHANGED <<engineVars, parserVars, downloaderVars, exporterVars, ingestVars>>

\* Line 38: callable_fn raises.
CallRaises ==
  /\ bo_pc = "call"
  /\ \E o \in Outcomes \ {"ok"} : outcomes' = Append(outcomes, o)
  /\ calls' = calls + 1
  /\ bo_pc' = "handle"
  /\ UNCHANGED <<max_tries, attempt, bo_result>>
  /\ UNCHANGED <<engineVars, parserVars, downloaderVars, exporterVars, ingestVars>>

\* Lines 39-44: `except HttpError`
HandleHttpError ==
  /\ bo_pc = "handle"
  /\ Last(outcomes) \in {"rate_limited", "http_other"}
  /\ attempt' = attempt + 1
  /\ IF attempt' >= max_tries \/ ~is_rate_limited_error(Last(outcomes))
     THEN /\ bo_result' = Some([how |-> "raise", call |-> calls])
          /\ bo_pc' = "raised"
     ELSE /\ bo_result' = bo_result
          /\ bo_pc' = "call"
  /\ UNCHANGED <<max_tries, calls, outcomes>>
  /\ UNCHANGED <<engineVars, parserVars, downloaderVars, exporterVars, ingestVars>>

\* The network handler giving up one attempt late.
HandleNetworkErrorLate ==
  /\ bo_pc = "handle"
  /\ Last(outcomes) = "network"
  /\ attempt' = attempt + 1
  /\ IF attempt' > max_tries
     THEN /\ bo_result' = Some([how |-> "raise", call |-> calls])
          /\ bo_pc' = "raised"
     ELSE /\ bo_result' = bo_result
          /\ bo_pc' = "call"
  /\ UNCHANGED <<max_tries, calls, outcomes>>
  /\ UNCHANGED <<engineVars, parserVars, downloaderVars, exporterVars, ingestVars>>

\* Lines 45-50: `except (TimeoutError, OSError, ConnectionError)`
HandleNetworkError ==
  /\ bo_pc = "handle"
  /\ Last(outcomes) = "network"
  /\ attempt' = attempt + 1
  /\ IF attempt' >= max_tries
     THEN /\ bo_result' = Some([how |-> "raise", call |-> calls])
          /\ bo_pc' = "raised"
     ELSE /\ bo_result' = bo_result
          /\ bo_pc' = "call"
  /\ UNCHANGED <<max_tries, calls, outcomes>>
  /\ UNCHANGED <<engineVars, parserVars, downloaderVars, exporterVars, ingestVars>>

\* Lines 37-50: an exception no `except` clause names leaves with_backoff.
Propagate ==
  /\ bo_pc = "handle"
  /\ Last(outcomes) = "other"
  /\ bo_result' = Some([how |-> "raise", call |-> calls])
  /\ bo_pc' = "raised"
  /\ UNCHANGED <<max_tries, attempt, calls, outcomes>>
  /\ UNCHANGED <<engineVars, parserVars, downloaderVars, exporterVars, ingestVars>>

InitBackoff ==
  /\ max_tries \in 1..MaxTries
  /\ attempt = 0
  /\ calls = 0
  /\ outcomes = <<>>
  /\ bo_result = None
  /\ bo_pc = "call"
  /\ EngineIdle /\ ParserIdle /\ DownloaderIdle /\ ExporterIdle /\ IngestIdle

NextBackoff ==
  \/ CallReturns
  \/ CallRaises
  \/ HandleHttpError
  \/ HandleNetworkError
  \/ Propagate

SpecBackoff == InitBackoff /\ [][NextBackoff]_vars

\* callable_fn returns or raises, and the sleep of lines 43-44 and 49-50
\* ends: a step that can be taken is taken.
SpecBackoffFair == SpecBackoff /\ WF_vars(NextBackoff)

\* The invocations that raised an HttpError or a network error.
Failed == { i \in 1..Len(outcomes) :
              outcomes[i] \in {"rate_limited", "http_other", "network"} }

BackoffBounded ==
  /\ calls = Len(outcomes)
  /\ calls <= max_tries
  /\ bo_pc = "call" => calls < max_tries
  \* one counter for HTTP and network errors
  /\ bo_pc # "handle" => attempt = Cardinality(Failed)
  \* the first successful result is returned
  /\ \A i \in 1..Len(outcomes) :
       outcomes[i] = "ok"
         => /\ i = Len(outcomes)
            /\ bo_pc = "returned"
            /\ bo_result = Some([how |-> "return", call |-> i])
  \* an HttpError that is not rate-limit-related ends the attempts
  /\ \A i \in 1..Len(outcomes) :
       outcomes[i] = "http_other"
         => /\ i = Len(outcomes)
            /\ bo_pc \in {"handle", "raised"}
  \* what is raised is the last error
  /\ bo_pc = "raised"
       => /\ bo_result = Some([how |-> "raise", call |-> Len(outcomes)])
          /\ Last(outcomes) # "ok"
  \* max_tries failed attempts end in a raise
  /\ (calls = max_tries /\ Last(outcomes) # "ok" /\ bo_pc # "handle")
       => bo_pc = "raised"

\* C30: with_backoff terminates after at most max_tries invocations of the
\* wrapped call, HTTP and network errors sharing one attempt counter: it
\* returns the first successful result, re-raises an HttpError that is not
\* rate-limit-related at once without a further attempt, and re-raises the
\* last error once max_tries attempts have failed.
C30_BoundedRetries ==
  [](BackoffBounded) /\ <>(bo_pc \in {"returned", "raised"})

\* C30 happens: HTTP and network errors were both retried and the last
\* permitted attempt failed.
C30_Witness ==
  /\ bo_pc = "raised"
  /\ max_tries >= 3
  /\ calls = max_tries
  /\ \E i, j \in 1..Len(outcomes) :
       outcomes[i] = "rate_limited" /\ outcomes[j] = "network"

====
